---- MODULE Spec2Model ----
(***************************************************************************)
(* A state-machine model of the FungibleToken contract                     *)
(* (src/src/FungibleTokenContract.ts) with its packed policy codec         *)
(* (src/src/lib/configs.ts), its verification-key registry and the         *)
(* side-loaded proof verification.                                         *)
(*                                                                         *)
(* A contract method runs in two phases.  First the circuit is executed:   *)
(* its assertions are evaluated in program order and the first failing one *)
(* aborts the call with its message.  Then the transaction is applied by   *)
(* the ledger, which rejects it as a whole when a required signature is    *)
(* missing or a balance leaves its range.  A rejected call changes         *)
(* nothing.                                                                *)
(***************************************************************************)
EXTENDS Integers, Sequences, FiniteSets, TLC

----------------------------------------------------------------------------
(* Bounds of the model *)

\* Largest balance an account can hold (stands for the UInt64 range).
MaxBalance == 1

\* Largest number of account updates in a drawn forest.
MaxNodes == 2

\* Largest number of fields in which a drawn proof departs from a proof that
\* passes every check.
MaxDeviations == 1

\* the longest list of records given to packConfigs
MaxRecords == 5

----------------------------------------------------------------------------
(* Keys, accounts, token ids *)

\* this.address: the contract's own account, which tracks circulation
Self == "self"

\* PublicKey.empty()
EmptyKey == "empty"

\* token holders (and candidates for the admin role)
Users == {"A", "B"}

Accounts == Users \cup {Self}

MINA_TOKEN_ID == 1

\* this.deriveTokenId(): a derived id, never the native one
ThisTokenId == MINA_TOKEN_ID + 1

\* the id of some third token
OtherTokenId == MINA_TOKEN_ID + 2

OpMint == 1
OpBurn == 2
OpTransfer == 3
OpApproveBase == 4

OperationKeys == {OpMint, OpBurn, OpTransfer, OpApproveBase}

MERKLE_HEIGHT == 3

----------------------------------------------------------------------------
(* ConfigCodec: src/src/lib/configs.ts *)

BITS_PER_CONFIG == 7
TOTAL_BITS == 28

\* Field.toBits(n) asserts that the value fits in n bits
FitsBits(x, n) == x < 2 ^ n

\* Field.toBits(n): little-endian booleans
FieldToBits(x, n) == [i \in 1..n |-> ((x \div (2 ^ (i - 1))) % 2) = 1]

RECURSIVE FieldFromBits(_)
\* Field.fromBits(bits): little-endian
FieldFromBits(bits) ==
    IF bits = <<>> THEN 0
    ELSE (IF Head(bits) THEN 1 ELSE 0) + 2 * FieldFromBits(Tail(bits))

\* variant: the first two flags change places
ConfigToBitsSwapped(c) ==
    << c.requireRecipientMatch, c.shouldVerify, c.requireTokenIdMatch,
       c.requireMinaBalanceMatch, c.requireCustomTokenBalanceMatch,
       c.requireMinaNonceMatch, c.requireCustomTokenNonceMatch >>

\* DynamicProofConfig.toBits()
ConfigToBits(c) ==
    << c.shouldVerify, c.requireRecipientMatch, c.requireTokenIdMatch,
       c.requireMinaBalanceMatch, c.requireCustomTokenBalanceMatch,
       c.requireMinaNonceMatch, c.requireCustomTokenNonceMatch >>

\* new DynamicProofConfig({...}) from seven bits
ConfigOfBits(bits) ==
    [ shouldVerify                   |-> bits[1],
      requireRecipientMatch          |-> bits[2],
      requireTokenIdMatch            |-> bits[3],
      requireMinaBalanceMatch        |-> bits[4],
      requireCustomTokenBalanceMatch |-> bits[5],
      requireMinaNonceMatch          |-> bits[6],
      requireCustomTokenNonceMatch   |-> bits[7] ]

\* DynamicProofConfig.unpack(packedConfigs, configIndex)
Unpack(packedConfigs, configIndex) ==
    LET start == configIndex * BITS_PER_CONFIG
        bits  == SubSeq(FieldToBits(packedConfigs, TOTAL_BITS),
                        start + 1, start + BITS_PER_CONFIG)
    IN  ConfigOfBits(bits)

\* variant: the bits above the written segment are not kept
UpdatePackedConfigsTruncating(c, packedConfigs, configIndex) ==
    LET bits  == FieldToBits(packedConfigs, TOTAL_BITS)
        start == configIndex * BITS_PER_CONFIG
    IN  FieldFromBits(SubSeq(bits, 1, start) \o ConfigToBits(c))

\* config.updatePackedConfigs(packedConfigs, configIndex)
UpdatePackedConfigs(c, packedConfigs, configIndex) ==
    LET bits  == FieldToBits(packedConfigs, TOTAL_BITS)
        start == configIndex * BITS_PER_CONFIG
    IN  FieldFromBits(SubSeq(bits, 1, start) \o ConfigToBits(c)
                      \o SubSeq(bits, start + BITS_PER_CONFIG + 1, TOTAL_BITS))

RECURSIVE FlatBits(_)
\* configs.flatMap((config) => config.toBits())
FlatBits(configs) ==
    IF configs = <<>> THEN <<>>
    ELSE ConfigToBits(Head(configs)) \o FlatBits(Tail(configs))

\* variant: the number of records is not checked
PackConfigsErrorNever(configs) == "ok"

\* if (configs.length !== 4) throw new Error(...)
PackConfigsError(configs) ==
    IF Len(configs) # 4 THEN "InvalidRecordCount" ELSE "ok"

\* variant: the first record fills all four segments
PackConfigsFirstRepeated(configs) ==
    IF PackConfigsError(configs) # "ok" THEN PackConfigsError(configs)
    ELSE FieldFromBits(FlatBits(<<configs[1], configs[1], configs[1], configs[1]>>))

\* DynamicProofConfig.packConfigs(configs); "InvalidRecordCount" is the thrown Error
PackConfigs(configs) ==
    IF PackConfigsError(configs) # "ok" THEN PackConfigsError(configs)
    ELSE FieldFromBits(FlatBits(configs))

\* a policy record from its 7-bit number
ConfigOfNat(n) == ConfigOfBits(FieldToBits(n, BITS_PER_CONFIG))

\* MintDynamicProofConfig.default: verification off, all six matches required
MintDefault == ConfigOfNat(126)
\* BurnDynamicProofConfig.default: as mint, but no token-nonce match
BurnDefault == ConfigOfNat(62)
\* TransferDynamicProofConfig.default
TransferDefault == ConfigOfNat(62)
\* UpdatesDynamicProofConfig.default: every flag off
UpdatesDefault == ConfigOfNat(0)

----------------------------------------------------------------------------
(* KeyRegistry: VKeyMerkleMap = IndexedMerkleMap(MERKLE_HEIGHT)            *)
(* A map is the sequence of its <<key, value>> leaves in insertion order,  *)
(* without the fixed first leaf (0, 0).                                    *)

\* verification keys a caller can present
VKeys == {"vk1", "vk2"}

\* vk.hash
VKeyHash(vk) == IF vk = "vk1" THEN 1 ELSE 2

\* leaves besides the first one that a tree of this height can hold
MapCapacity == 2 ^ (MERKLE_HEIGHT - 1) - 1

\* new VKeyMerkleMap()
EmptyMap == <<>>

MapHas(m, k) == \E i \in 1..Len(m) : m[i][1] = k

MapIndex(m, k) == CHOOSE i \in 1..Len(m) : m[i][1] = k

\* vKeyMap.getOption(key)
MapGetOption(m, k) ==
    IF MapHas(m, k) THEN [isSome |-> TRUE, value |-> m[MapIndex(m, k)][2]]
    ELSE [isSome |-> FALSE, value |-> 0]

\* option.orElse(0n)
OrElseZero(opt) == IF opt.isSome THEN opt.value ELSE 0

\* vKeyMap.set(key, value) succeeds: the key is present or a leaf is free
MapCanSet(m, k) == MapHas(m, k) \/ Len(m) < MapCapacity

\* variant: a new leaf is appended also for a key that is present
MapSetAppend(m, k, v) == Append(m, <<k, v>>)

\* vKeyMap.set(key, value): overwrite in place, or append a new leaf
MapSet(m, k, v) ==
    IF MapHas(m, k) THEN [m EXCEPT ![MapIndex(m, k)] = <<k, v>>]
    ELSE Append(m, <<k, v>>)

RECURSIVE MapRoot(_)
\* vKeyMap.root: a commitment to the leaves in their order, never 0;
\* injective on maps whose keys and values are below 8
MapRoot(m) ==
    IF m = <<>> THEN 1
    ELSE 64 * MapRoot(SubSeq(m, 1, Len(m) - 1))
         + 8 * m[Len(m)][1] + m[Len(m)][2]

RECURSIVE MapOfRoot(_)
\* the replica a caller has kept in step with the published root
MapOfRoot(r) ==
    IF r <= 1 THEN <<>>
    ELSE Append(MapOfRoot(r \div 64), <<(r % 64) \div 8, r % 8>>)

----------------------------------------------------------------------------
(* State *)

VARIABLES
    initialized,                \* initialize has taken effect
    admin,                      \* @state admin
    decimals,                   \* @state decimals
    packedDynamicProofConfigs,  \* @state packedDynamicProofConfigs
    vKeyMapRoot,                \* @state vKeyMapRoot
    balance,                    \* token balance of every account of this token
    env,                        \* native balance, native nonce and token nonce
                                \* of the account a proof speaks about
    call,                       \* the call drawn for the one-call specifications
    last                        \* the last call: entry point and outcome

contractState == <<initialized, admin, decimals, packedDynamicProofConfigs,
                   vKeyMapRoot>>

vars == <<initialized, admin, decimals, packedDynamicProofConfigs,
          vKeyMapRoot, balance, env, call, last>>

\* no call has been recorded
NoCall == [op |-> "none"]

\* the arguments of a recorded call
CallOf(op, proof, vk, vKeyMap, operationKey, updates, signers) ==
    [ op |-> op, proof |-> proof, vk |-> vk, vKeyMap |-> vKeyMap,
      operationKey |-> operationKey, updates |-> updates, signers |-> signers ]

\* sequencing: a failed assertion aborts the call with its message and what
\* follows it is not run
Then(err, rest) == IF err # "ok" THEN err ELSE rest

\* variant: the effects of a call are taken whatever its outcome
CommitAlways(err, new, old) == new

\* a rejected call applies nothing: every effect is taken only when err = "ok"
Commit(err, new, old) == IF err = "ok" THEN new ELSE old

----------------------------------------------------------------------------
(* The ledger: signatures and balances *)

\* accountUpdate.requireSignature(): the ledger rejects the transaction unless
\* every key whose signature an account update requires has signed
SignaturesOk(required, signers) == required \subseteq signers

RECURSIVE ApplyDeltas(_, _)
\* balance changes are applied one account update after the other; each
\* resulting balance must stay in range or the transaction is rejected
ApplyDeltas(bal, deltas) ==
    IF deltas = <<>> THEN [ok |-> TRUE, bal |-> bal]
    ELSE LET d   == Head(deltas)
             new == bal[d[1]] + d[2]
         IN  IF new < 0 \/ new > MaxBalance THEN [ok |-> FALSE, bal |-> bal]
             ELSE ApplyDeltas([bal EXCEPT ![d[1]] = new], Tail(deltas))

\* outcome of the ledger for a transaction with these required signatures and
\* these balance changes
LedgerError(required, signers, deltas) ==
    IF ~SignaturesOk(required, signers) THEN "ledger:signature"
    ELSE IF ~ApplyDeltas(balance, deltas).ok THEN "ledger:balance"
    ELSE "ok"

\* account.balance.get() of the account an AccountUpdate names
AccountBalance(au) ==
    IF au.tokenId = ThisTokenId
    THEN (IF au.publicKey \in Accounts THEN balance[au.publicKey] ELSE 0)
    ELSE IF au.tokenId = MINA_TOKEN_ID THEN env.minaBalance
    ELSE 0

\* account.nonce.get() of the account an AccountUpdate names
AccountNonce(au) ==
    IF au.tokenId = ThisTokenId THEN env.tokenNonce
    ELSE IF au.tokenId = MINA_TOKEN_ID THEN env.minaNonce
    ELSE 0

----------------------------------------------------------------------------
(* ProofPolicyVerifier *)

\* the opaque capability verify(proof, key): a proof verifies against the
\* key of the program that produced it and against no other
CryptoVerify(proof, vk) == proof.provenWith = vk

\* variant: the assertion is made whatever shouldVerify is
AssertAlways(shouldVerify, condition, message) ==
    IF ~condition THEN message ELSE "ok"

\* Provable.if(shouldVerify, condition, Bool(true)).assertTrue(message)
AssertIf(shouldVerify, condition, message) ==
    IF shouldVerify /\ ~condition THEN message ELSE "ok"

\* variant: the replica's root is not compared
RootCheckSkipped(cfg, vKeyMap) == "ok"

\* isRootCompliant.assertTrue(vKeyMapOutOfSync)
RootCheck(cfg, vKeyMap) ==
    AssertIf(cfg.shouldVerify, vKeyMapRoot = MapRoot(vKeyMap), "vKeyMapOutOfSync")

\* variant: the presence of an entry is not asserted
IsSomeCheckSkipped(cfg, vKeyMap, operationKey) == "ok"

\* vKeyHashIsSome.assertTrue(missingVKeyForOperation)
IsSomeCheck(cfg, vKeyMap, operationKey) ==
    AssertIf(cfg.shouldVerify, MapGetOption(vKeyMap, operationKey).isSome,
             "missingVKeyForOperation")

\* variant: the candidate key's hash is not compared
KeyHashCheckSkipped(cfg, vk, vKeyMap, operationKey) == "ok"

\* isVKeyValid.assertTrue(invalidSideLoadedVKey)
KeyHashCheck(cfg, vk, vKeyMap, operationKey) ==
    AssertIf(cfg.shouldVerify,
             VKeyHash(vk) = OrElseZero(MapGetOption(vKeyMap, operationKey)),
             "invalidSideLoadedVKey")

\* variant: the address of the proof is not compared
RecipientCheckSkipped(cfg, proof, recipient) == "ok"

\* isRecipientValid.assertTrue(recipientMismatch)
RecipientCheck(cfg, proof, recipient) ==
    AssertIf(cfg.shouldVerify,
             proof.address = recipient \/ ~cfg.requireRecipientMatch,
             "recipientMismatch")

\* the assertion with tokenIdMismatch
TokenIdCheck(cfg, proof) ==
    AssertIf(cfg.shouldVerify,
             proof.tokenIdAccountData.tokenId = ThisTokenId \/ ~cfg.requireTokenIdMatch,
             "tokenIdMismatch")

\* variant: the native asset id is compared only if requireTokenIdMatch is set
MinaTokenIdCheckIfRequired(cfg, proof) ==
    AssertIf(cfg.shouldVerify,
             proof.minaAccountData.tokenId = MINA_TOKEN_ID \/ ~cfg.requireTokenIdMatch,
             "incorrectMinaTokenId")

\* the assertion with incorrectMinaTokenId
MinaTokenIdCheck(cfg, proof) ==
    AssertIf(cfg.shouldVerify, proof.minaAccountData.tokenId = MINA_TOKEN_ID,
             "incorrectMinaTokenId")

\* the assertion with minaBalanceMismatch
MinaBalanceCheck(cfg, proof) ==
    AssertIf(cfg.shouldVerify,
             AccountBalance(proof.minaAccountData) = proof.minaBalance
                 \/ ~cfg.requireMinaBalanceMatch,
             "minaBalanceMismatch")

\* variant: the token balance of the proof is not compared
TokenBalanceCheckSkipped(cfg, proof) == "ok"

\* the assertion with customTokenBalanceMismatch
TokenBalanceCheck(cfg, proof) ==
    AssertIf(cfg.shouldVerify,
             AccountBalance(proof.tokenIdAccountData) = proof.tokenIdBalance
                 \/ ~cfg.requireCustomTokenBalanceMatch,
             "customTokenBalanceMismatch")

\* the assertion with minaNonceMismatch
MinaNonceCheck(cfg, proof) ==
    AssertIf(cfg.shouldVerify,
             AccountNonce(proof.minaAccountData) = proof.minaNonce
                 \/ ~cfg.requireMinaNonceMatch,
             "minaNonceMismatch")

\* variant: the token nonce is compared if the token balance is required to match
TokenNonceCheckByBalanceFlag(cfg, proof) ==
    AssertIf(cfg.shouldVerify,
             AccountNonce(proof.tokenIdAccountData) = proof.tokenIdNonce
                 \/ ~cfg.requireCustomTokenBalanceMatch,
             "customTokenNonceMismatch")

\* the assertion with customTokenNonceMismatch
TokenNonceCheck(cfg, proof) ==
    AssertIf(cfg.shouldVerify,
             AccountNonce(proof.tokenIdAccountData) = proof.tokenIdNonce
                 \/ ~cfg.requireCustomTokenNonceMatch,
             "customTokenNonceMismatch")

\* variant: the token nonce is compared before the token balance
VerifySideLoadedProofNonceFirst(proof, vk, recipient, cfg, vKeyMap, operationKey) ==
    Then(RootCheck(cfg, vKeyMap),
    Then(IsSomeCheck(cfg, vKeyMap, operationKey),
    Then(KeyHashCheck(cfg, vk, vKeyMap, operationKey),
    Then(RecipientCheck(cfg, proof, recipient),
    Then(TokenIdCheck(cfg, proof),
    Then(MinaTokenIdCheck(cfg, proof),
    Then(MinaBalanceCheck(cfg, proof),
    Then(TokenNonceCheck(cfg, proof),
    Then(MinaNonceCheck(cfg, proof),
         TokenBalanceCheck(cfg, proof))))))))))

\* verifySideLoadedProof up to its last assertion, in program order
VerifySideLoadedProof(proof, vk, recipient, cfg, vKeyMap, operationKey) ==
    Then(RootCheck(cfg, vKeyMap),
    Then(IsSomeCheck(cfg, vKeyMap, operationKey),
    Then(KeyHashCheck(cfg, vk, vKeyMap, operationKey),
    Then(RecipientCheck(cfg, proof, recipient),
    Then(TokenIdCheck(cfg, proof),
    Then(MinaTokenIdCheck(cfg, proof),
    Then(MinaBalanceCheck(cfg, proof),
    Then(TokenBalanceCheck(cfg, proof),
    Then(MinaNonceCheck(cfg, proof),
         TokenNonceCheck(cfg, proof))))))))))

\* variant: the side-loaded proof is never verified
VerifyIfSkipped(proof, vk, shouldVerify) == "ok"

\* proof.verifyIf(vk, shouldVerify): the side-loaded proof is verified when the
\* method is proven, after the method body has run
VerifyIf(proof, vk, shouldVerify) ==
    IF shouldVerify /\ ~CryptoVerify(proof, vk) THEN "proofInvalid" ELSE "ok"

\* variant: the direct entry points do not look at shouldVerify
DirectGateOpen(cfg) == "ok"

\* config.shouldVerify.assertFalse(noPermissionForSideloadDisabledOperation)
DirectGate(cfg) ==
    IF cfg.shouldVerify THEN "noPermissionForSideloadDisabledOperation" ELSE "ok"

\* toBits(TOTAL_BITS) inside unpack fails on a value that does not fit
UnpackError(packed) == IF FitsBits(packed, TOTAL_BITS) THEN "ok" ELSE "toBitsOverflow"

MintConfig == Unpack(packedDynamicProofConfigs, 0)
BurnConfig == Unpack(packedDynamicProofConfigs, 1)
TransferConfig == Unpack(packedDynamicProofConfigs, 2)
UpdatesConfig == Unpack(packedDynamicProofConfigs, 3)

----------------------------------------------------------------------------
(* Applying a call *)

\* the state a call may change
Cur == [ initialized |-> initialized, admin |-> admin, decimals |-> decimals,
         packed |-> packedDynamicProofConfigs, root |-> vKeyMapRoot,
         balance |-> balance ]

\* the whole transaction takes effect, or none of it
Apply(op, err, new) ==
    LET s == Commit(err, new, Cur)
    IN  /\ initialized' = s.initialized
        /\ admin' = s.admin
        /\ decimals' = s.decimals
        /\ packedDynamicProofConfigs' = s.packed
        /\ vKeyMapRoot' = s.root
        /\ balance' = s.balance
        /\ last' = [op |-> op, err |-> err]
        /\ UNCHANGED env

WithBalance(deltas) == [Cur EXCEPT !.balance = ApplyDeltas(balance, deltas).bal]

----------------------------------------------------------------------------
(* Initialization and admin operations *)

\* variant: no account update of the admin is created
EnsureNoSignature(condition) == {}

\* ensureAdminSignature(condition): an account update of the current admin
\* that requires the admin's signature, created when condition holds
EnsureAdminSignature(condition) == IF condition THEN {admin} ELSE {}

\* variant: the ledger lets the permissions of the token account be set again
InitializeAnyTime(newAdmin, newDecimals, configs, signers) ==
    LET err == IF Self \in signers THEN "ok" ELSE "ledger:signature"
    IN  Apply("initialize", err,
              [Cur EXCEPT !.initialized = TRUE, !.admin = newAdmin,
                          !.decimals = newDecimals,
                          !.packed = PackConfigs(configs),
                          !.root = MapRoot(EmptyMap)])

\* initialize(admin, decimals, four configs): needs the signature of the
\* contract's own key (createSigned); it sets the permissions of the
\* contract's token account with setPermissions impossible, so the ledger
\* rejects that update once it has been applied
Initialize(newAdmin, newDecimals, configs, signers) ==
    LET err == Then(IF Self \in signers THEN "ok" ELSE "ledger:signature",
                    IF initialized THEN "ledger:initialized" ELSE "ok")
    IN  Apply("initialize", err,
              [Cur EXCEPT !.initialized = TRUE, !.admin = newAdmin,
                          !.decimals = newDecimals,
                          !.packed = PackConfigs(configs),
                          !.root = MapRoot(EmptyMap)])

\* variant: no signature of the current admin is asked for
SetAdminUnsigned(newAdmin, signers) ==
    Apply("setAdmin", "ok", [Cur EXCEPT !.admin = newAdmin])

\* setAdmin(admin), with canChangeAdmin
SetAdmin(newAdmin, signers) ==
    LET err == LedgerError(EnsureAdminSignature(TRUE), signers, <<>>)
    IN  Apply("setAdmin", err, [Cur EXCEPT !.admin = newAdmin])

\* variant: the operation key is not compared with the four operation keys
UpdateVKeyChecksAnyKey(vKey, vKeyMap, operationKey) ==
    Then(IF vKeyMapRoot = MapRoot(vKeyMap) THEN "ok" ELSE "vKeyMapOutOfSync",
         IF MapCanSet(vKeyMap, operationKey) THEN "ok" ELSE "mapFull")

\* variant: the replica's root is not compared with the root on chain
UpdateVKeyChecksAnyRoot(vKey, vKeyMap, operationKey) ==
    Then(IF operationKey \in OperationKeys THEN "ok" ELSE "invalidOperationKey",
         IF MapCanSet(vKeyMap, operationKey) THEN "ok" ELSE "mapFull")

\* the assertions of updateSideLoadedVKeyHash, in program order
UpdateVKeyChecks(vKey, vKeyMap, operationKey) ==
    Then(IF vKeyMapRoot = MapRoot(vKeyMap) THEN "ok" ELSE "vKeyMapOutOfSync",
    Then(IF operationKey \in OperationKeys THEN "ok" ELSE "invalidOperationKey",
         IF MapCanSet(vKeyMap, operationKey) THEN "ok" ELSE "mapFull"))

\* updateSideLoadedVKeyHash(vKey, vKeyMap, operationKey)
UpdateSideLoadedVKeyHash(vKey, vKeyMap, operationKey, signers) ==
    LET err == Then(UpdateVKeyChecks(vKey, vKeyMap, operationKey),
                    LedgerError(EnsureAdminSignature(TRUE), signers, <<>>))
        newMerkleRoot == MapRoot(MapSet(vKeyMap, operationKey, VKeyHash(vKey)))
    IN  Apply("updateSideLoadedVKeyHash", err, [Cur EXCEPT !.root = newMerkleRoot])

\* variant: the record is written one bit too high
NewPackedConfigShifted(operationType, config, packed) ==
    FieldFromBits(SubSeq(FieldToBits(packed, TOTAL_BITS), 1, 22)
                  \o ConfigToBits(config))

\* variant: the record is written to the segment of mint whatever the id
NewPackedConfigFirstSegment(operationType, config, packed) ==
    FieldFromBits(ConfigToBits(config) \o SubSeq(FieldToBits(packed, TOTAL_BITS), 8, 28))

\* Provable.switch([isMint, isBurn, isTransfer, isApproveBase], Field, [...])
\* over the four fields updateDynamicProofConfig builds from the 28 bits
NewPackedConfig(operationType, config, packed) ==
    LET allBits    == FieldToBits(packed, TOTAL_BITS)
        configBits == ConfigToBits(config)
        mintUpdatedField     == FieldFromBits(configBits \o SubSeq(allBits, 8, 28))
        burnUpdatedField     == FieldFromBits(SubSeq(allBits, 1, 7) \o configBits
                                              \o SubSeq(allBits, 15, 28))
        transferUpdatedField == FieldFromBits(SubSeq(allBits, 1, 14) \o configBits
                                              \o SubSeq(allBits, 22, 28))
        approveUpdatedField  == FieldFromBits(SubSeq(allBits, 1, 21) \o configBits)
    IN  CASE operationType = OpMint        -> mintUpdatedField
          [] operationType = OpBurn        -> burnUpdatedField
          [] operationType = OpTransfer    -> transferUpdatedField
          [] operationType = OpApproveBase -> approveUpdatedField
          [] OTHER                         -> 0

\* updateDynamicProofConfig(operationType, config)
UpdateDynamicProofConfig(operationType, config, signers) ==
    LET err == Then(IF operationType \in OperationKeys THEN "ok"
                    ELSE "invalidOperationType",
               Then(UnpackError(packedDynamicProofConfigs),
                    LedgerError(EnsureAdminSignature(TRUE), signers, <<>>)))
    IN  Apply("updateDynamicProofConfig", err,
              [Cur EXCEPT !.packed = NewPackedConfig(operationType, config,
                                                     packedDynamicProofConfigs)])

----------------------------------------------------------------------------
(* Mint, burn, transfer *)

\* variant: the contract's own account passes as an endpoint
NotCirculationSkipped(key) == "ok"

\* recipient.equals(this.address).assertFalse(noTransferFromCirculation)
NotCirculation(key) ==
    IF key = Self THEN "noTransferFromCirculation" ELSE "ok"

\* a direct entry point: unpack the record, require shouldVerify = false,
\* run the assertions of the operation, then the ledger decides
DirectModeError(cfg, circuit, ledger) ==
    Then(UnpackError(packedDynamicProofConfigs),
    Then(DirectGate(cfg),
    Then(circuit, ledger)))

\* a proof-mode entry point, in the order in which its failures surface: the
\* assertions of verifySideLoadedProof, the assertions of the operation, the
\* verification of the side-loaded proof when the method is proven, the ledger
ProofModeError(proof, vk, recipient, cfg, vKeyMap, operationKey, circuit, ledger) ==
    Then(UnpackError(packedDynamicProofConfigs),
    Then(VerifySideLoadedProof(proof, vk, recipient, cfg, vKeyMap, operationKey),
    Then(circuit,
    Then(VerifyIf(proof, vk, cfg.shouldVerify), ledger))))

\* variant: a mint that leaves the circulation account alone
MintDeltasRecipientOnly(recipient, amount) == << <<recipient, amount>> >>

\* variant: one token is minted whatever the amount
MintDeltasUnit(recipient, amount) == << <<recipient, 1>>, <<Self, 1>> >>

\* the balance changes of #internalMint: the recipient and the circulation
MintDeltas(recipient, amount) == << <<recipient, amount>>, <<Self, amount>> >>

\* the assertion of #internalMint
InternalMintCircuit(recipient, amount) == NotCirculation(recipient)

\* what the ledger requires of the account updates of #internalMint
InternalMintLedger(recipient, amount, signers) ==
    LedgerError(EnsureAdminSignature(TRUE), signers, MintDeltas(recipient, amount))

\* mint(recipient, amount)
Mint(recipient, amount, signers) ==
    LET err == DirectModeError(MintConfig, InternalMintCircuit(recipient, amount),
                               InternalMintLedger(recipient, amount, signers))
    IN  Apply("mint", err, WithBalance(MintDeltas(recipient, amount)))

\* mintWithProof(recipient, amount, proof, vk, vKeyMap)
MintWithProof(recipient, amount, proof, vk, vKeyMap, signers) ==
    LET err == ProofModeError(proof, vk, recipient, MintConfig, vKeyMap, OpMint,
                              InternalMintCircuit(recipient, amount),
                              InternalMintLedger(recipient, amount, signers))
    IN  Apply("mintWithProof", err, WithBalance(MintDeltas(recipient, amount)))

\* variant: the circulation account is not debited
BurnDeltasHolderOnly(from, amount) == << <<from, 0 - amount>> >>

\* the balance changes of #internalBurn: the holder and the circulation
BurnDeltas(from, amount) == << <<from, 0 - amount>>, <<Self, 0 - amount>> >>

\* the assertion of #internalBurn
InternalBurnCircuit(from, amount) == NotCirculation(from)

\* variant: a burn needs the admin's signature as a mint does
InternalBurnLedgerWithAdmin(from, amount, signers) ==
    LedgerError({from} \cup EnsureAdminSignature(TRUE), signers,
                BurnDeltas(from, amount))

\* this.internal.burn requires the signature of the account it debits
InternalBurnLedger(from, amount, signers) ==
    LedgerError({from}, signers, BurnDeltas(from, amount))

\* burn(from, amount)
Burn(from, amount, signers) ==
    LET err == DirectModeError(BurnConfig, InternalBurnCircuit(from, amount),
                               InternalBurnLedger(from, amount, signers))
    IN  Apply("burn", err, WithBalance(BurnDeltas(from, amount)))

\* burnWithProof(from, amount, proof, vk, vKeyMap)
BurnWithProof(from, amount, proof, vk, vKeyMap, signers) ==
    LET err == ProofModeError(proof, vk, from, BurnConfig, vKeyMap, OpBurn,
                              InternalBurnCircuit(from, amount),
                              InternalBurnLedger(from, amount, signers))
    IN  Apply("burnWithProof", err, WithBalance(BurnDeltas(from, amount)))

\* variant: the receiver is not credited
TransferDeltasSenderOnly(from, to, amount) == << <<from, 0 - amount>> >>

\* the balance changes of this.internal.send({from, to, amount})
TransferDeltas(from, to, amount) == << <<from, 0 - amount>>, <<to, amount>> >>

\* the assertions of internalTransfer
InternalTransferCircuit(from, to, amount) ==
    Then(NotCirculation(from), NotCirculation(to))

\* this.internal.send requires the signature of the sender
InternalTransferLedger(from, to, amount, signers) ==
    LedgerError({from}, signers, TransferDeltas(from, to, amount))

\* transferCustom(from, to, amount)
TransferCustom(from, to, amount, signers) ==
    LET err == DirectModeError(TransferConfig,
                               InternalTransferCircuit(from, to, amount),
                               InternalTransferLedger(from, to, amount, signers))
    IN  Apply("transferCustom", err, WithBalance(TransferDeltas(from, to, amount)))

\* transferCustomWithProof(from, to, amount, proof, vk, vKeyMap)
TransferCustomWithProof(from, to, amount, proof, vk, vKeyMap, signers) ==
    LET err == ProofModeError(proof, vk, from, TransferConfig, vKeyMap, OpTransfer,
                              InternalTransferCircuit(from, to, amount),
                              InternalTransferLedger(from, to, amount, signers))
    IN  Apply("transferCustomWithProof", err,
              WithBalance(TransferDeltas(from, to, amount)))

----------------------------------------------------------------------------
(* BatchApprover *)
(* A forest is the sequence of its account updates in the order in which   *)
(* forEachUpdate hands them to the callback, each with the usesToken flag  *)
(* the iterator computes for it.                                           *)

\* variant: the receive setting is not looked at
CheckPermissionsUpdateAccessOnly(update) ==
    IF update.permissions.access = "none" \/ ~update.permissions.isSome THEN "ok"
    ELSE "noPermissionChangeAllowed"

\* checkPermissionsUpdate(update)
CheckPermissionsUpdate(update) ==
    LET permissions   == update.permissions
        accessIsNone  == permissions.access = "none"
        receiveIsNone == permissions.receive = "none"
        updateAllowed == accessIsNone /\ receiveIsNone
    IN  IF updateAllowed \/ ~permissions.isSome THEN "ok"
        ELSE "noPermissionChangeAllowed"

\* variant: a debit is added to the running total as if it were a credit
AddMagnitudeIfUsesToken(totalBalance, update) ==
    IF ~update.usesToken THEN totalBalance
    ELSE IF update.balanceChange < 0 THEN totalBalance - update.balanceChange
    ELSE totalBalance + update.balanceChange

\* totalBalance = Provable.if(usesToken, totalBalance.add(balanceChange), totalBalance)
AddIfUsesToken(totalBalance, update) ==
    IF update.usesToken THEN totalBalance + update.balanceChange ELSE totalBalance

\* variant: the running total is not looked at after a node
NotPositiveSkipped(totalBalance) == "ok"

\* variant: a running total of zero is refused as well
NotPositiveNorZero(totalBalance) == IF totalBalance >= 0 THEN "flashMinting" ELSE "ok"

\* totalBalance.isPositive().assertFalse(flashMinting)
NotPositive(totalBalance) == IF totalBalance > 0 THEN "flashMinting" ELSE "ok"

\* variant: a node of the contract's own account with no balance change passes
NodeChecksZeroAllowed(update, totalBalance) ==
    Then(CheckPermissionsUpdate(update),
    Then(IF update.publicKey = Self /\ update.usesToken /\ update.balanceChange # 0
         THEN "noTransferFromCirculation" ELSE "ok",
         NotPositive(AddIfUsesToken(totalBalance, update))))

\* the assertions of the callback for one account update
NodeChecks(update, totalBalance) ==
    Then(CheckPermissionsUpdate(update),
    Then(IF update.publicKey = Self /\ update.usesToken
         THEN "noTransferFromCirculation" ELSE "ok",
         NotPositive(AddIfUsesToken(totalBalance, update))))

\* variant: the total is not looked at after the loop
IsBalancedSkipped(totalBalance) == "ok"

\* totalBalance.assertEquals(Int64.zero, unbalancedTransaction)
IsBalanced(totalBalance) ==
    IF totalBalance = 0 THEN "ok" ELSE "unbalancedTransaction"

RECURSIVE ForEachUpdate(_, _)
\* the loop of internalApproveBase and its closing assertion
ForEachUpdate(updates, totalBalance) ==
    IF updates = <<>>
    THEN IsBalanced(totalBalance)
    ELSE Then(NodeChecks(Head(updates), totalBalance),
              ForEachUpdate(Tail(updates),
                            AddIfUsesToken(totalBalance, Head(updates))))

RECURSIVE ForestDeltas(_)
\* the balance changes a forest asks for, in its order
ForestDeltas(updates) ==
    IF updates = <<>> THEN <<>>
    ELSE (IF Head(updates).usesToken
          THEN << <<Head(updates).publicKey, Head(updates).balanceChange>> >>
          ELSE <<>>) \o ForestDeltas(Tail(updates))

\* the ledger lets an account be debited only with that account's authorization
ForestSigners(updates) ==
    { updates[i].publicKey : i \in { j \in 1..Len(updates) :
          updates[j].usesToken /\ updates[j].balanceChange < 0 } }

\* internalApproveBase(updates)
InternalApproveBase(updates) == ForEachUpdate(updates, 0)

\* what the ledger requires of the account updates of an approved forest
ApproveLedger(updates, signers) ==
    LedgerError(ForestSigners(updates), signers, ForestDeltas(updates))

\* approveBaseCustom(updates)
ApproveBaseCustom(updates, signers) ==
    LET err == DirectModeError(UpdatesConfig, InternalApproveBase(updates),
                               ApproveLedger(updates, signers))
    IN  Apply("approveBaseCustom", err, WithBalance(ForestDeltas(updates)))

\* approveBaseCustomWithProof(updates, proof, vk, vKeyMap)
ApproveBaseCustomWithProof(updates, proof, vk, vKeyMap, signers) ==
    LET err == ProofModeError(proof, vk, EmptyKey, UpdatesConfig, vKeyMap,
                              OpApproveBase, InternalApproveBase(updates),
                              ApproveLedger(updates, signers))
    IN  Apply("approveBaseCustomWithProof", err, WithBalance(ForestDeltas(updates)))

----------------------------------------------------------------------------
(* Inputs of the contract runs *)

Amounts == 0..MaxBalance

SignerSets == SUBSET Users

\* operation ids a caller may pass: the four valid ones and two invalid ones
OperationInputs == OperationKeys \cup {0, 5}

\* a proof produced by the program with key provenWith ("forged": by none),
\* whose public output is a snapshot of owner's native and token accounts
Snapshot(owner, tokenBalance, provenWith) ==
    [ address            |-> owner,
      minaAccountData    |-> [publicKey |-> owner, tokenId |-> MINA_TOKEN_ID],
      tokenIdAccountData |-> [publicKey |-> owner, tokenId |-> ThisTokenId],
      minaBalance        |-> 0,
      tokenIdBalance     |-> tokenBalance,
      minaNonce          |-> 0,
      tokenIdNonce       |-> 0,
      provenWith         |-> provenWith ]

\* what a caller presents with a proof-mode call: proof, key and replica
Presentation(proof, vk, vKeyMap) == [proof |-> proof, vk |-> vk, vKeyMap |-> vKeyMap]

\* a replica that is not in step with the published root
StaleReplica ==
    IF MapOfRoot(vKeyMapRoot) = EmptyMap THEN << <<OpBurn, VKeyHash("vk1")>> >>
    ELSE EmptyMap

\* presentations of burn, transfer and batch approval in the contract runs: a
\* current snapshot of "A" with the replica in step, and a forged proof
ShortPresentationInputs ==
    { Presentation(Snapshot("A", balance["A"], "vk1"), "vk1", MapOfRoot(vKeyMapRoot)),
      Presentation(Snapshot("A", balance["A"], "forged"), "vk1", MapOfRoot(vKeyMapRoot)) }

\* presentations of mint in the contract runs: also a replica that is not in step
PresentationInputs ==
    ShortPresentationInputs
    \cup { Presentation(Snapshot("A", balance["A"], "vk1"), "vk1", StaleReplica) }

\* the replicas the admin presents: the one in step and one that is not
ReplicaInputs == { MapOfRoot(vKeyMapRoot), StaleReplica }

\* the registry updates the admin asks for in the contract runs
RegistryUpdateInputs ==
    { <<OpMint, "vk1">>, <<OpMint, "vk2">>, <<0, "vk1">>, <<5, "vk1">> }

\* the policy updates the admin asks for in the contract runs: mint and batch
\* approval are switched between their default record and the record with
\* every flag set
ConfigUpdateInputs ==
    { <<OpMint, 127>>, <<OpMint, 126>>,
      <<OpApproveBase, 127>>, <<OpApproveBase, 0>>, <<0, 127>>, <<5, 127>> }

\* the records initialize is called with: the defaults of configs.ts
InitConfigInputs == { <<MintDefault, BurnDefault, TransferDefault, UpdatesDefault>> }

KeepPermissions == [isSome |-> FALSE, access |-> "none", receive |-> "none"]
NeutralPermissions == [isSome |-> TRUE, access |-> "none", receive |-> "none"]
RestrictAccess == [isSome |-> TRUE, access |-> "proof", receive |-> "none"]
RestrictReceive == [isSome |-> TRUE, access |-> "none", receive |-> "proof"]

Node(publicKey, usesToken, balanceChange, permissions) ==
    [ publicKey |-> publicKey, usesToken |-> usesToken,
      balanceChange |-> balanceChange, permissions |-> permissions ]

\* the account updates of the forests of the contract runs
DebitA == Node("A", TRUE, -1, KeepPermissions)
CreditB == Node("B", TRUE, 1, KeepPermissions)
DebitB == Node("B", TRUE, -1, KeepPermissions)
CreditA == Node("A", TRUE, 1, KeepPermissions)
DebitSelf == Node(Self, TRUE, -1, KeepPermissions)
OtherTokenNode == Node("A", FALSE, 1, RestrictAccess)

\* forests of the direct calls of the contract runs
ForestInputs ==
    { <<>>, <<DebitA>>, <<CreditB>>, <<OtherTokenNode>>,
      <<DebitA, CreditB>>, <<CreditB, DebitA>>, <<DebitB, CreditA>>,
      <<DebitSelf, CreditA>>, <<DebitA, OtherTokenNode>>, <<DebitA, DebitB>> }

\* forests of the proof-mode calls of the contract runs
ProofForestInputs == { <<>>, <<DebitA, CreditB>>, <<CreditB, DebitA>> }

\* sender and receiver of the transfers of the contract runs
TransferInputs ==
    { <<"A", "B">>, <<"B", "A">>, <<"A", "A">>, <<Self, "A">>, <<"A", Self>> }

----------------------------------------------------------------------------
(* The contract runs: any sequence of calls from the deployed contract *)

Init ==
    /\ initialized = FALSE
    /\ admin = EmptyKey
    /\ decimals = 0
    /\ packedDynamicProofConfigs = 0
    /\ vKeyMapRoot = 0
    /\ balance = [a \in Accounts |-> 0]
    /\ env = [minaBalance |-> 0, minaNonce |-> 0, tokenNonce |-> 0]
    /\ call = NoCall
    /\ last = [op |-> "none", err |-> "ok"]

InitializeCall ==
    /\ \E a \in Users, c \in InitConfigInputs, s \in {{}, {Self}} :
          Initialize(a, 9, c, s)
    /\ UNCHANGED call

SetAdminCall ==
    /\ \E a \in Users, s \in SignerSets : SetAdmin(a, s)
    /\ UNCHANGED call

UpdateSideLoadedVKeyHashCall ==
    /\ \E m \in ReplicaInputs, u \in RegistryUpdateInputs, s \in SignerSets :
          UpdateSideLoadedVKeyHash(u[2], m, u[1], s)
    /\ UNCHANGED call

UpdateDynamicProofConfigCall ==
    /\ \E u \in ConfigUpdateInputs, s \in SignerSets :
          UpdateDynamicProofConfig(u[1], ConfigOfNat(u[2]), s)
    /\ UNCHANGED call

MintCall ==
    /\ \E r \in Accounts, a \in Amounts, s \in SignerSets : Mint(r, a, s)
    /\ UNCHANGED call

MintWithProofCall ==
    /\ \E p \in PresentationInputs, r \in Accounts, a \in Amounts, s \in {{}, Users} :
          MintWithProof(r, a, p.proof, p.vk, p.vKeyMap, s)
    /\ UNCHANGED call

BurnCall ==
    /\ \E f \in Accounts, a \in Amounts, s \in SignerSets : Burn(f, a, s)
    /\ UNCHANGED call

BurnWithProofCall ==
    /\ \E p \in ShortPresentationInputs, f \in Accounts, a \in Amounts, s \in {{}, Users} :
          BurnWithProof(f, a, p.proof, p.vk, p.vKeyMap, s)
    /\ UNCHANGED call

TransferCustomCall ==
    /\ \E ft \in TransferInputs, a \in Amounts, s \in SignerSets :
          TransferCustom(ft[1], ft[2], a, s)
    /\ UNCHANGED call

TransferCustomWithProofCall ==
    /\ \E p \in ShortPresentationInputs, ft \in TransferInputs,
          a \in Amounts, s \in {{}, Users} :
          TransferCustomWithProof(ft[1], ft[2], a, p.proof, p.vk, p.vKeyMap, s)
    /\ UNCHANGED call

ApproveBaseCustomCall ==
    /\ \E u \in ForestInputs, s \in {{}, Users} : ApproveBaseCustom(u, s)
    /\ UNCHANGED call

ApproveBaseCustomWithProofCall ==
    /\ \E p \in ShortPresentationInputs, u \in ProofForestInputs, s \in {{}, Users} :
          ApproveBaseCustomWithProof(u, p.proof, p.vk, p.vKeyMap, s)
    /\ UNCHANGED call

Next ==
    \/ InitializeCall
    \/ SetAdminCall
    \/ UpdateSideLoadedVKeyHashCall
    \/ UpdateDynamicProofConfigCall
    \/ MintCall
    \/ MintWithProofCall
    \/ BurnCall
    \/ BurnWithProofCall
    \/ TransferCustomCall
    \/ TransferCustomWithProofCall
    \/ ApproveBaseCustomCall
    \/ ApproveBaseCustomWithProofCall

Spec == Init /\ [][Next]_vars

----------------------------------------------------------------------------
(* Entry points and the records and registry ids they use *)

DirectOps == {"mint", "burn", "transferCustom", "approveBaseCustom"}

ProofOps == {"mintWithProof", "burnWithProof", "transferCustomWithProof",
             "approveBaseCustomWithProof"}

ApproveOps == {"approveBaseCustom", "approveBaseCustomWithProof"}

\* the policy record an entry point unpacks
ConfigFor(op) ==
    CASE op \in {"mint", "mintWithProof"}                           -> MintConfig
      [] op \in {"burn", "burnWithProof"}                           -> BurnConfig
      [] op \in {"transferCustom", "transferCustomWithProof"}       -> TransferConfig
      [] op \in {"approveBaseCustom", "approveBaseCustomWithProof"} -> UpdatesConfig

\* the registry id a proof-mode entry point passes to verifySideLoadedProof
OperationKeyFor(op) ==
    CASE op = "mintWithProof"              -> OpMint
      [] op = "burnWithProof"              -> OpBurn
      [] op = "transferCustomWithProof"    -> OpTransfer
      [] op = "approveBaseCustomWithProof" -> OpApproveBase

\* the registry behind the published root
Registry == MapOfRoot(vKeyMapRoot)

----------------------------------------------------------------------------
(* Drawn inputs of the one-call specifications *)

\* the fields in which a proof can depart from one that passes every check
Deviations == {"address", "tokenId", "minaTokenId", "minaBalance",
               "tokenIdBalance", "minaNonce", "tokenIdNonce", "provenWith"}

DeviationSets == { d \in SUBSET Deviations : Cardinality(d) <= MaxDeviations }

\* the deviations of the proof of one call: those, and every two fields at once
CallDeviations ==
    { d \in SUBSET Deviations : Cardinality(d) <= MaxDeviations \/ Cardinality(d) = 2 }

\* a proof about owner presented with key vk: a current snapshot of owner's
\* accounts proven with vk, except in the fields named in d
ProofOf(owner, vk, d) ==
    LET minaData  == [publicKey |-> owner,
                      tokenId |-> IF "minaTokenId" \in d THEN OtherTokenId
                                  ELSE MINA_TOKEN_ID]
        tokenData == [publicKey |-> owner,
                      tokenId |-> IF "tokenId" \in d THEN OtherTokenId
                                  ELSE ThisTokenId]
        Off(name) == IF name \in d THEN 1 ELSE 0
    IN  [ address            |-> IF "address" \in d THEN "B" ELSE owner,
          minaAccountData    |-> minaData,
          tokenIdAccountData |-> tokenData,
          minaBalance        |-> AccountBalance(minaData) + Off("minaBalance"),
          tokenIdBalance     |-> AccountBalance(tokenData) + Off("tokenIdBalance"),
          minaNonce          |-> AccountNonce(minaData) + Off("minaNonce"),
          tokenIdNonce       |-> AccountNonce(tokenData) + Off("tokenIdNonce"),
          provenWith         |-> IF "provenWith" \in d THEN "forged" ELSE vk ]

\* every policy record
AllConfigs == { ConfigOfNat(n) : n \in 0..(2 ^ BITS_PER_CONFIG - 1) }

\* registries the admin can have built
RegistryInputs ==
    { << <<OpMint, VKeyHash("vk1")>>, <<OpBurn, VKeyHash("vk1")>>,
         <<OpTransfer, VKeyHash("vk1")>> >>,
      << <<OpApproveBase, VKeyHash("vk1")>>, <<OpMint, VKeyHash("vk2")>> >> }

\* the replicas a caller presents: a registry the admin can have built, or
\* an empty map
CallReplicaInputs == RegistryInputs \cup {EmptyMap}

\* balances with the circulation in step: nothing minted, or one token held by "A"
HeldByA == [a \in Accounts |-> IF a = "B" THEN 0 ELSE 1]

BalanceInputs == { [a \in Accounts |-> 0], HeldByA }

\* an initialized contract with admin a
InitializedBy(a, packed, registry, bal) ==
    /\ initialized = TRUE
    /\ admin = a
    /\ decimals = 9
    /\ packedDynamicProofConfigs = packed
    /\ vKeyMapRoot = MapRoot(registry)
    /\ balance = bal
    /\ env = [minaBalance |-> 0, minaNonce |-> 0, tokenNonce |-> 0]
    /\ call = NoCall
    /\ last = [op |-> "none", err |-> "ok"]

\* an initialized contract with admin "A"
InitializedWith(packed, registry, bal) == InitializedBy("A", packed, registry, bal)

----------------------------------------------------------------------------
(* One call of an entry point from a drawn state of an initialized contract *)

\* the holder "A" is the admin, or the admin is "B"
InitCall ==
    \/ \E c \in AllConfigs, m \in RegistryInputs, b \in BalanceInputs :
          InitializedWith(PackConfigs(<<c, c, c, c>>), m, b)
    \/ \E c \in {ConfigOfNat(0), ConfigOfNat(2 ^ BITS_PER_CONFIG - 1)},
          m \in RegistryInputs :
          InitializedBy("B", PackConfigs(<<c, c, c, c>>), m, HeldByA)

\* the endpoints of a recorded mint, burn or transfer (EmptyKey: none)
Endpoints(from, to) == [from |-> from, to |-> to]

OneMint ==
    /\ last.op = "none"
    /\ \E r \in Accounts, a \in Amounts, s \in SignerSets :
          /\ Mint(r, a, s)
          /\ call' = CallOf("mint", "none", "none", EmptyMap, 0, <<>>, s)
                        @@ Endpoints(EmptyKey, r) @@ [amount |-> a]

\* a call with a proof is drawn in full for the holder "A" with at most
\* MaxDeviations deviating fields; with two deviating fields, and with the
\* contract's own account as an endpoint, the replica is the one in step
OneMintWithProof ==
    /\ last.op = "none"
    /\ \E r \in {"A", Self}, m \in CallReplicaInputs, vk \in VKeys,
          d \in CallDeviations, s \in {{}, {"B"}, Users} :
          /\ (r = Self \/ Cardinality(d) > MaxDeviations)
                => (m = Registry /\ s = Users)
          /\ r = Self => (vk = "vk1" /\ d \in {{}, {"address"}, {"provenWith"}})
          /\ s # Users => d = {}
          /\ MintWithProof(r, 1, ProofOf(r, vk, d), vk, m, s)
          /\ call' = CallOf("mintWithProof", ProofOf(r, vk, d), vk, m, OpMint, <<>>, s)
                        @@ Endpoints(EmptyKey, r) @@ [amount |-> 1]

OneBurn ==
    /\ last.op = "none"
    /\ \E f \in Accounts, a \in Amounts, s \in SignerSets :
          /\ Burn(f, a, s)
          /\ call' = CallOf("burn", "none", "none", EmptyMap, 0, <<>>, s)
                        @@ Endpoints(f, EmptyKey) @@ [amount |-> a]

OneBurnWithProof ==
    /\ last.op = "none"
    /\ \E f \in {"A", Self}, m \in CallReplicaInputs, vk \in VKeys,
          d \in CallDeviations, s \in SignerSets :
          /\ (f = Self \/ Cardinality(d) > MaxDeviations)
                => (m = Registry /\ s = Users)
          /\ f = Self => (vk = "vk1" /\ d \in {{}, {"address"}, {"provenWith"}})
          /\ s # Users => (m = Registry /\ vk = "vk1" /\ d = {})
          /\ BurnWithProof(f, 1, ProofOf(f, vk, d), vk, m, s)
          /\ call' = CallOf("burnWithProof", ProofOf(f, vk, d), vk, m, OpBurn, <<>>, s)
                        @@ Endpoints(f, EmptyKey) @@ [amount |-> 1]

OneTransferCustom ==
    /\ last.op = "none"
    /\ \E e \in {<<"A", "B">>, <<"B", "A">>, <<Self, "B">>, <<"A", Self>>},
          a \in Amounts, s \in SignerSets :
          /\ TransferCustom(e[1], e[2], a, s)
          /\ call' = CallOf("transferCustom", "none", "none", EmptyMap, 0, <<>>, s)
                        @@ Endpoints(e[1], e[2]) @@ [amount |-> a]

OneTransferCustomWithProof ==
    /\ last.op = "none"
    /\ \E e \in {<<"A", "B">>, <<Self, "B">>, <<"A", Self>>},
          m \in CallReplicaInputs, vk \in VKeys,
          d \in CallDeviations, s \in SignerSets :
          /\ (Self \in {e[1], e[2]} \/ Cardinality(d) > MaxDeviations)
                => (m = Registry /\ s = Users)
          /\ Self \in {e[1], e[2]}
                => (vk = "vk1" /\ d \in {{}, {"address"}, {"provenWith"}})
          /\ s # Users => (m = Registry /\ vk = "vk1" /\ d = {})
          /\ TransferCustomWithProof(e[1], e[2], 1, ProofOf(e[1], vk, d), vk, m, s)
          /\ call' = CallOf("transferCustomWithProof", ProofOf(e[1], vk, d), vk, m,
                            OpTransfer, <<>>, s)
                        @@ Endpoints(e[1], e[2]) @@ [amount |-> 1]

OneApproveBaseCustom ==
    /\ last.op = "none"
    /\ \E s \in {{}, Users} :
          /\ ApproveBaseCustom(<<DebitA, CreditB>>, s)
          /\ call' = CallOf("approveBaseCustom", "none", "none", EmptyMap, 0,
                            <<DebitA, CreditB>>, s)

OneApproveBaseCustomWithProof ==
    /\ last.op = "none"
    /\ \E m \in CallReplicaInputs, vk \in VKeys,
          d \in CallDeviations, s \in {Users} :
          /\ Cardinality(d) > MaxDeviations => m = Registry
          /\ ApproveBaseCustomWithProof(<<DebitA, CreditB>>, ProofOf(EmptyKey, vk, d),
                                        vk, m, s)
          /\ call' = CallOf("approveBaseCustomWithProof", ProofOf(EmptyKey, vk, d),
                            vk, m, OpApproveBase, <<DebitA, CreditB>>, s)

OneUpdateSideLoadedVKeyHash ==
    /\ last.op = "none"
    /\ \E m \in CallReplicaInputs, k \in OperationInputs, s \in {{}, Users} :
          /\ UpdateSideLoadedVKeyHash("vk2", m, k, s)
          /\ call' = CallOf("updateSideLoadedVKeyHash", "none", "vk2", m, k, <<>>, s)

OneSetAdmin ==
    /\ last.op = "none"
    /\ \E a \in Users, s \in SignerSets :
          /\ SetAdmin(a, s)
          /\ call' = CallOf("setAdmin", "none", "none", EmptyMap, 0, <<>>, s)

\* the policy updates of single calls: every id, valid or not
CallConfigUpdateInputs ==
    { <<OpMint, 127>>, <<OpMint, 126>>, <<OpBurn, 85>>, <<OpTransfer, 42>>,
      <<OpApproveBase, 127>>, <<OpApproveBase, 0>>, <<0, 127>>, <<5, 127>> }

OneUpdateDynamicProofConfig ==
    /\ last.op = "none"
    /\ \E u \in CallConfigUpdateInputs, s \in SignerSets :
          /\ UpdateDynamicProofConfig(u[1], ConfigOfNat(u[2]), s)
          /\ call' = CallOf("updateDynamicProofConfig", "none", "none", EmptyMap,
                            u[1], <<>>, s) @@ [config |-> ConfigOfNat(u[2])]

NextCall ==
    \/ OneMint
    \/ OneMintWithProof
    \/ OneBurn
    \/ OneBurnWithProof
    \/ OneTransferCustom
    \/ OneTransferCustomWithProof
    \/ OneApproveBaseCustom
    \/ OneApproveBaseCustomWithProof
    \/ OneUpdateSideLoadedVKeyHash
    \/ OneSetAdmin
    \/ OneUpdateDynamicProofConfig

SpecCall == InitCall /\ [][NextCall]_vars

----------------------------------------------------------------------------
(* One batch approval of a drawn forest *)

\* the account updates a drawn forest is made of
NodeKinds ==
    { Node(o, u, c, KeepPermissions) : o \in Accounts, u \in BOOLEAN, c \in {-1, 1} }
    \cup { Node(o, TRUE, 0, KeepPermissions) : o \in {"A", Self} }
    \cup { Node("A", u, c, p) : u \in BOOLEAN, c \in {-1, 1},
                                p \in {NeutralPermissions, RestrictAccess,
                                       RestrictReceive} }

\* the forests of at most n account updates drawn from nodes
ForestsOf(nodes, n) == UNION { [1..k -> nodes] : k \in 0..n }

DrawnForests == ForestsOf(NodeKinds, MaxNodes)

\* the registry of the batch approvals: a key for batch approval only
ApproveRegistry == << <<OpApproveBase, VKeyHash("vk1")>> >>

InitApprove ==
    \E c \in {ConfigOfNat(0), ConfigOfNat(2 ^ BITS_PER_CONFIG - 1)} :
        InitializedWith(PackConfigs(<<c, c, c, c>>), ApproveRegistry, HeldByA)

ApproveDrawn ==
    /\ last.op = "none"
    /\ \E u \in DrawnForests, s \in {{}, Users} :
          /\ ApproveBaseCustom(u, s)
          /\ call' = CallOf("approveBaseCustom", "none", "none", EmptyMap, 0, u, s)

ApproveDrawnWithProof ==
    /\ last.op = "none"
    /\ \E u \in DrawnForests, d \in {{}, {"provenWith"}}, s \in {Users} :
          /\ ApproveBaseCustomWithProof(u, ProofOf(EmptyKey, "vk1", d), "vk1",
                                        ApproveRegistry, s)
          /\ call' = CallOf("approveBaseCustomWithProof", ProofOf(EmptyKey, "vk1", d),
                            "vk1", ApproveRegistry, OpApproveBase, u, s)

NextApprove ==
    \/ ApproveDrawn
    \/ ApproveDrawnWithProof

SpecApprove == InitApprove /\ [][NextApprove]_vars

----------------------------------------------------------------------------
(* The life of the registry: initialization, registrations by the admin and *)
(* proof-mode calls in between                                              *)

\* the records the contract is initialized with in these runs: every flag
\* off, shouldVerify alone, every flag on
RegistryConfigInputs ==
    { ConfigOfNat(0), ConfigOfNat(1), ConfigOfNat(2 ^ BITS_PER_CONFIG - 1) }

\* the keys the admin registers in these runs
RegistrationInputs ==
    { <<k, "vk1">> : k \in OperationKeys } \cup { <<OpMint, "vk2">> }

\* what the callers of these runs present: an honest or a forged proof
RegistryProofInputs == { {}, {"provenWith"} }

RegistryInitialize ==
    \E c \in RegistryConfigInputs :
        /\ Initialize("A", 9, <<c, c, c, c>>, {Self})
        /\ call' = CallOf("initialize", "none", "none", EmptyMap, 0, <<>>, {Self})

RegisterKey ==
    \E m \in ReplicaInputs, u \in RegistrationInputs, s \in {{}, Users} :
        /\ UpdateSideLoadedVKeyHash(u[2], m, u[1], s)
        /\ call' = CallOf("updateSideLoadedVKeyHash", "none", u[2], m, u[1], <<>>, s)

RegistryMintWithProof ==
    \E m \in ReplicaInputs, vk \in VKeys, d \in RegistryProofInputs :
        /\ MintWithProof("A", 1, ProofOf("A", vk, d), vk, m, Users)
        /\ call' = CallOf("mintWithProof", ProofOf("A", vk, d), vk, m, OpMint,
                          <<>>, Users)

RegistryBurnWithProof ==
    \E m \in ReplicaInputs, vk \in {"vk1"}, d \in RegistryProofInputs :
        /\ BurnWithProof("A", 1, ProofOf("A", vk, d), vk, m, Users)
        /\ call' = CallOf("burnWithProof", ProofOf("A", vk, d), vk, m, OpBurn,
                          <<>>, Users)

RegistryTransferWithProof ==
    \E m \in ReplicaInputs, vk \in {"vk1"}, d \in RegistryProofInputs :
        /\ TransferCustomWithProof("A", "A", 1, ProofOf("A", vk, d), vk, m, Users)
        /\ call' = CallOf("transferCustomWithProof", ProofOf("A", vk, d), vk, m,
                          OpTransfer, <<>>, Users)

RegistryApproveWithProof ==
    \E m \in ReplicaInputs, vk \in {"vk1"}, d \in RegistryProofInputs :
        /\ ApproveBaseCustomWithProof(<<>>, ProofOf(EmptyKey, vk, d), vk, m, Users)
        /\ call' = CallOf("approveBaseCustomWithProof", ProofOf(EmptyKey, vk, d), vk,
                          m, OpApproveBase, <<>>, Users)

NextRegistry ==
    \/ RegistryInitialize
    \/ RegisterKey
    \/ RegistryMintWithProof
    \/ RegistryBurnWithProof
    \/ RegistryTransferWithProof
    \/ RegistryApproveWithProof

SpecRegistry == Init /\ [][NextRegistry]_vars

----------------------------------------------------------------------------
(* Presenting a proof again: mints with a proof, with burns, transfers and *)
(* policy updates in between.  call holds the latest mintWithProof and     *)
(* whether its proof has been accepted for a positive amount.              *)

\* the registry of these runs: a key for minting
ReplayRegistry == << <<OpMint, VKeyHash("vk1")>> >>

\* mint: shouldVerify with the token balance required to match, alone or
\* with every other flag; burn and transfer: direct
ReplayConfigInputs == { ConfigOfNat(1 + 2 ^ 4), ConfigOfNat(2 ^ BITS_PER_CONFIG - 1) }

InitReplay ==
    \E c \in ReplayConfigInputs :
        InitializedWith(PackConfigs(<<c, ConfigOfNat(0), ConfigOfNat(0), ConfigOfNat(0)>>),
                        ReplayRegistry, [a \in Accounts |-> 0])

\* the record of a mintWithProof of these runs
MintRecord(recipient, amount, proof, used, again) ==
    CallOf("mintWithProof", proof, "vk1", ReplayRegistry, OpMint, <<>>, Users)
        @@ Endpoints(EmptyKey, recipient)
        @@ [amount |-> amount, used |-> used, again |-> again]

\* mintWithProof with a proof generated from the recipient's current accounts
MintWithNewProof ==
    \E r \in Users, a \in Amounts :
        /\ MintWithProof(r, a, ProofOf(r, "vk1", {}), "vk1", ReplayRegistry, Users)
        /\ call' = MintRecord(r, a, ProofOf(r, "vk1", {}),
                              last'.err = "ok" /\ a > 0, FALSE)

\* mintWithProof with the proof of the latest mintWithProof
MintWithSameProof ==
    /\ call.op = "mintWithProof"
    /\ \E a \in Amounts :
          /\ MintWithProof(call.to, a, call.proof, "vk1", ReplayRegistry, Users)
          /\ call' = MintRecord(call.to, a, call.proof,
                                call.used \/ (last'.err = "ok" /\ a > 0), TRUE)

ReplayBurn ==
    /\ \E f \in Users : Burn(f, 1, Users)
    /\ UNCHANGED call

ReplayTransfer ==
    /\ \E e \in {<<"A", "B">>, <<"B", "A">>} : TransferCustom(e[1], e[2], 1, Users)
    /\ UNCHANGED call

\* the admin relaxes or restores the policy of mint
ReplayUpdateConfig ==
    /\ \E c \in ReplayConfigInputs \cup {ConfigOfNat(1)} :
          UpdateDynamicProofConfig(OpMint, c, Users)
    /\ UNCHANGED call

NextReplay ==
    \/ MintWithNewProof
    \/ MintWithSameProof
    \/ ReplayBurn
    \/ ReplayTransfer
    \/ ReplayUpdateConfig

SpecReplay == InitReplay /\ [][NextReplay]_vars

----------------------------------------------------------------------------
(* Keeping a replica in step: registry updates by the admin, and mints and *)
(* burns with a proof, presenting the replica in step or a replica that    *)
(* was in step before an earlier update.  call carries that replica.       *)

\* a replica that was in step before an accepted update changed the registry
PreUpdateReplica == IF call.op = "none" THEN EmptyMap ELSE call.before

\* the replicas presented in these runs
SyncReplicaInputs == { Registry, PreUpdateReplica }

\* the keys the admin registers in these runs
SyncRegistrationInputs ==
    { <<OpMint, "vk1">>, <<OpMint, "vk2">>, <<OpBurn, "vk1">>, <<OpTransfer, "vk2">> }

InitSync ==
    \E c \in {ConfigOfNat(0), ConfigOfNat(1)} :
        InitializedWith(PackConfigs(<<c, c, c, c>>), EmptyMap, [a \in Accounts |-> 0])

\* an update that changes the registry makes the replica it was given a
\* pre-update replica; the caller keeps that one or an earlier one
SyncUpdate ==
    \E m \in SyncReplicaInputs, u \in SyncRegistrationInputs, s \in {{}, Users} :
        /\ UpdateSideLoadedVKeyHash(u[2], m, u[1], s)
        /\ \E b \in (IF vKeyMapRoot' # vKeyMapRoot THEN {m} ELSE {})
                     \cup {PreUpdateReplica} :
              call' = CallOf("updateSideLoadedVKeyHash", "none", u[2], m, u[1], <<>>, s)
                        @@ [before |-> b]

SyncMintWithProof ==
    \E m \in SyncReplicaInputs, vk \in VKeys :
        /\ MintWithProof("A", 1, ProofOf("A", vk, {}), vk, m, Users)
        /\ call' = CallOf("mintWithProof", ProofOf("A", vk, {}), vk, m, OpMint,
                          <<>>, Users) @@ [before |-> PreUpdateReplica]

SyncBurnWithProof ==
    \E m \in SyncReplicaInputs, vk \in VKeys :
        /\ BurnWithProof("A", 1, ProofOf("A", vk, {}), vk, m, Users)
        /\ call' = CallOf("burnWithProof", ProofOf("A", vk, {}), vk, m, OpBurn,
                          <<>>, Users) @@ [before |-> PreUpdateReplica]

NextSync ==
    \/ SyncUpdate
    \/ SyncMintWithProof
    \/ SyncBurnWithProof

SpecSync == InitSync /\ [][NextSync]_vars

----------------------------------------------------------------------------
(* The codec of the packed policy on its own: packConfigs of a drawn list *)
(* of records, or updatePackedConfigs of a drawn packed value with a drawn *)
(* record, followed by unpack of one segment.  call holds the arguments    *)
(* and the unpacked record, packedDynamicProofConfigs the packed result.   *)

\* the records that fill the positions of a list next to the varied one
CodecRecordInputs == { ConfigOfNat(0), ConfigOfNat(85), ConfigOfNat(2 ^ BITS_PER_CONFIG - 1) }

\* lists of four records: one position takes every record
FourRecordInputs ==
    { [k \in 1..4 |-> IF k = i THEN c ELSE f[k]] :
        i \in 1..4, c \in AllConfigs, f \in [1..4 -> CodecRecordInputs] }

\* lists of every length up to MaxRecords
RecordListInputs ==
    FourRecordInputs
      \cup UNION { [1..n -> CodecRecordInputs] : n \in 0..MaxRecords }

\* packed values below 2^28: no bit, every bit, one bit, all bits but one
PackedInputs ==
    { 0, 2 ^ TOTAL_BITS - 1 }
      \cup { 2 ^ k : k \in 0..(TOTAL_BITS - 1) }
      \cup { 2 ^ TOTAL_BITS - 1 - 2 ^ k : k \in 0..(TOTAL_BITS - 1) }

InitCodec ==
    /\ initialized = FALSE
    /\ admin = EmptyKey
    /\ decimals = 0
    /\ packedDynamicProofConfigs = 0
    /\ vKeyMapRoot = 0
    /\ balance = [a \in Accounts |-> 0]
    /\ env = [minaBalance |-> 0, minaNonce |-> 0, tokenNonce |-> 0]
    /\ last = [op |-> "none", err |-> "ok"]
    /\ \/ \E l \in RecordListInputs : call = [op |-> "none", configs |-> l]
       \/ \E p \in PackedInputs, c \in AllConfigs :
             call = [op |-> "none", packed |-> p, config |-> c]

\* DynamicProofConfig.packConfigs(call.configs)
CodecPackConfigs ==
    /\ call.op = "none"
    /\ "configs" \in DOMAIN call
    /\ last' = [op |-> "packConfigs", err |-> PackConfigsError(call.configs)]
    /\ packedDynamicProofConfigs' =
          IF PackConfigsError(call.configs) # "ok" THEN packedDynamicProofConfigs
          ELSE PackConfigs(call.configs)
    /\ call' = [op |-> "packConfigs", configs |-> call.configs]
    /\ UNCHANGED <<initialized, admin, decimals, vKeyMapRoot, balance, env>>

\* call.config.updatePackedConfigs(call.packed, i)
CodecUpdatePackedConfigs ==
    /\ call.op = "none"
    /\ "packed" \in DOMAIN call
    /\ \E i \in 0..3 :
          /\ packedDynamicProofConfigs' = UpdatePackedConfigs(call.config, call.packed, i)
          /\ call' = [op |-> "updatePackedConfigs", packed |-> call.packed,
                      config |-> call.config, configIndex |-> i]
    /\ last' = [op |-> "updatePackedConfigs", err |-> "ok"]
    /\ UNCHANGED <<initialized, admin, decimals, vKeyMapRoot, balance, env>>

\* DynamicProofConfig.unpack(packedDynamicProofConfigs, j) of a packed result
CodecUnpack ==
    /\ last.op \in {"packConfigs", "updatePackedConfigs"}
    /\ last.err = "ok"
    /\ \E j \in 0..3 :
          call' = [op |-> "unpack", input |-> call, segment |-> j,
                   unpacked |-> Unpack(packedDynamicProofConfigs, j)]
    /\ last' = [op |-> "unpack", err |-> "ok"]
    /\ UNCHANGED <<initialized, admin, decimals, packedDynamicProofConfigs,
                   vKeyMapRoot, balance, env>>

NextCodec ==
    \/ CodecPackConfigs
    \/ CodecUpdatePackedConfigs
    \/ CodecUnpack

SpecCodec == InitCodec /\ [][NextCodec]_vars

----------------------------------------------------------------------------
(* The admin role: setAdmin, mint, registry and policy updates in any      *)
(* order, each signed by any set of users.  call carries the signers, the  *)
(* new admin of a setAdmin and the admin before the role last moved.       *)

\* the admin before the latest accepted setAdmin that moved the role
PreviousAdmin == IF call.op = "none" THEN admin ELSE call.previous

\* the record of a call of these runs
AdminRecord(op, vk, vKeyMap, operationKey, signers, to, amount, newAdmin) ==
    CallOf(op, "none", vk, vKeyMap, operationKey, <<>>, signers)
        @@ Endpoints(EmptyKey, to)
        @@ [amount |-> amount, newAdmin |-> newAdmin,
            previous |-> IF admin' # admin THEN admin ELSE PreviousAdmin]

InitAdmin ==
    InitializedWith(PackConfigs(<<ConfigOfNat(0), ConfigOfNat(0), ConfigOfNat(0),
                                 ConfigOfNat(0)>>),
                    EmptyMap, [a \in Accounts |-> 0])

AdminSetAdmin ==
    \E a \in Users, s \in SignerSets :
        /\ SetAdmin(a, s)
        /\ call' = AdminRecord("setAdmin", "none", EmptyMap, 0, s, EmptyKey, 0, a)

AdminMint ==
    \E r \in Users, a \in Amounts, s \in SignerSets :
        /\ Mint(r, a, s)
        /\ call' = AdminRecord("mint", "none", EmptyMap, 0, s, r, a, EmptyKey)

AdminUpdateSideLoadedVKeyHash ==
    \E vk \in VKeys, s \in SignerSets :
        /\ UpdateSideLoadedVKeyHash(vk, Registry, OpMint, s)
        /\ call' = AdminRecord("updateSideLoadedVKeyHash", vk, Registry, OpMint, s,
                               EmptyKey, 0, EmptyKey)

AdminUpdateDynamicProofConfig ==
    \E c \in {ConfigOfNat(0), ConfigOfNat(2)}, s \in SignerSets :
        /\ UpdateDynamicProofConfig(OpMint, c, s)
        /\ call' = AdminRecord("updateDynamicProofConfig", "none", EmptyMap, OpMint,
                               s, EmptyKey, 0, EmptyKey) @@ [config |-> c]

NextAdmin ==
    \/ AdminSetAdmin
    \/ AdminMint
    \/ AdminUpdateSideLoadedVKeyHash
    \/ AdminUpdateDynamicProofConfig

SpecAdmin == InitAdmin /\ [][NextAdmin]_vars

----------------------------------------------------------------------------
(* Properties of the contract runs (Spec) *)

RECURSIVE SumOf(_, _)
\* the sum of the balances bal of the accounts in keys
SumOf(bal, keys) ==
    IF keys = {} THEN 0
    ELSE LET k == CHOOSE x \in keys : TRUE
         IN  bal[k] + SumOf(bal, keys \ {k})

\* C2: in every state reached after initialization by mint, burn, transfer and
\* batch approval, direct or with a proof, the token balance of the contract's
\* own account equals the sum of the token balances of all other accounts.
C2_CirculationIsSupply ==
    initialized => balance[Self] = SumOf(balance, Accounts \ {Self})

\* C2 witness: tokens were minted and then moved by an accepted batch
C2_Witness ==
    /\ initialized
    /\ last = [op |-> "approveBaseCustom", err |-> "ok"]
    /\ balance["B"] = 1
    /\ balance[Self] = 1

----------------------------------------------------------------------------
(* Properties of one call (SpecCall) *)

\* the errors of the verification step of a proof-mode entry point
VerificationErrors ==
    { "vKeyMapOutOfSync", "missingVKeyForOperation", "invalidSideLoadedVKey",
      "recipientMismatch", "tokenIdMismatch", "incorrectMinaTokenId",
      "minaBalanceMismatch", "customTokenBalanceMismatch", "minaNonceMismatch",
      "customTokenNonceMismatch", "proofInvalid" }

C5_DirectNeedsVerificationOff ==
    [][\A op \in DirectOps :
          (last'.op = op /\ ConfigFor(op).shouldVerify)
             => /\ last'.err = "noPermissionForSideloadDisabledOperation"
                /\ UNCHANGED <<contractState, balance>>]_vars

\* C5 witness: a direct burn signed by everyone was turned away by the gate
C5_Witness ==
    /\ last = [op |-> "burn", err |-> "noPermissionForSideloadDisabledOperation"]
    /\ call.signers = Users
    /\ balance["A"] = 1

\* C6: a proof-mode call accepted while its record has shouldVerify set was
\* given a proof that verifies against the candidate key, and that key is the
\* one registered for the operation.
C6_AcceptedProofWasVerified ==
    [][\A op \in ProofOps :
          (last'.op = op /\ last'.err = "ok" /\ ConfigFor(op).shouldVerify)
             => /\ CryptoVerify(call'.proof, call'.vk)
                /\ MapGetOption(Registry, OperationKeyFor(op))
                     = [isSome |-> TRUE, value |-> VKeyHash(call'.vk)]]_vars

\* C6 witness: a burnWithProof was accepted with verification enabled
C6_Witness ==
    /\ last = [op |-> "burnWithProof", err |-> "ok"]
    /\ BurnConfig.shouldVerify
    /\ balance["A"] = 0

\* C7: with shouldVerify set, a replica in step with the published root and a
\* key registered for the operation, a proof-mode call whose candidate key
\* hashes to another value is rejected with invalidSideLoadedVKey and changes
\* no balance.
C7_OtherKeyRejected ==
    [][\A op \in ProofOps :
          (/\ last'.op = op
           /\ ConfigFor(op).shouldVerify
           /\ vKeyMapRoot = MapRoot(call'.vKeyMap)
           /\ MapHas(Registry, OperationKeyFor(op))
           /\ MapGetOption(Registry, OperationKeyFor(op)).value # VKeyHash(call'.vk))
             => (last'.err = "invalidSideLoadedVKey" /\ balance' = balance)]_vars

\* C7 witness: a fully signed mintWithProof with an honest proof for a key
\* other than the registered one was rejected
C7_Witness ==
    /\ last = [op |-> "mintWithProof", err |-> "invalidSideLoadedVKey"]
    /\ call.signers = Users
    /\ CryptoVerify(call.proof, call.vk)

\* C8: a replica whose root differs from the published root is rejected with
\* vKeyMapOutOfSync whatever it contains: always by updateSideLoadedVKeyHash,
\* and by every proof-mode call whose record has shouldVerify set; the state
\* stays as it was.
C8_StaleReplicaRejected ==
    [][/\ (last'.op = "updateSideLoadedVKeyHash"
             /\ vKeyMapRoot # MapRoot(call'.vKeyMap))
          => /\ last'.err = "vKeyMapOutOfSync"
             /\ UNCHANGED <<contractState, balance>>
       /\ \A op \in ProofOps :
             (/\ last'.op = op
              /\ ConfigFor(op).shouldVerify
              /\ vKeyMapRoot # MapRoot(call'.vKeyMap))
                => /\ last'.err = "vKeyMapOutOfSync"
                   /\ UNCHANGED <<contractState, balance>>]_vars

\* C8 witness: a replica that holds the candidate key for the operation, but
\* is not the published registry, was turned away
C8_Witness ==
    /\ last = [op |-> "burnWithProof", err |-> "vKeyMapOutOfSync"]
    /\ MapGetOption(call.vKeyMap, OpBurn) = [isSome |-> TRUE, value |-> VKeyHash(call.vk)]
    /\ ~MapHas(Registry, OpBurn)
    /\ call.signers = Users

\* C10: when an operation's record has shouldVerify cleared, the verification
\* step of its proof-mode entry point accepts every replica, candidate key
\* and proof, whatever the six require flags are: the call never ends with a
\* registry, key, recipient, token id, native id, balance, nonce or proof
\* validity error.
C10_VerificationOffAccepts ==
    [][\A op \in ProofOps :
          (last'.op = op /\ ~ConfigFor(op).shouldVerify)
             => /\ last'.err \notin VerificationErrors
                /\ \A r \in {"A", EmptyKey} :
                      VerifySideLoadedProof(call'.proof, call'.vk, r, ConfigFor(op),
                                            call'.vKeyMap, OperationKeyFor(op)) = "ok"
                /\ VerifyIf(call'.proof, call'.vk, ConfigFor(op).shouldVerify) = "ok"]_vars

\* C10 witness: with every require flag set and verification off, a forged
\* proof with a replica out of step and no key for the operation was accepted
C10_Witness ==
    /\ last = [op |-> "mintWithProof", err |-> "ok"]
    /\ MintConfig = ConfigOfNat(126)
    /\ call.proof.provenWith = "forged"
    /\ vKeyMapRoot # MapRoot(call.vKeyMap)
    /\ ~MapHas(call.vKeyMap, OpMint)

\* the entry points that update the admin, the policy and the registry
AdminOps == {"setAdmin", "updateDynamicProofConfig", "updateSideLoadedVKeyHash"}

\* C11: in an initialized contract the admin changes only in a setAdmin, the
\* packed policy only in an updateDynamicProofConfig and the registry root
\* only in an updateSideLoadedVKeyHash, each signed by the current admin; the
\* three updates are rejected and change nothing without the admin's
\* signature; decimals never change; and mint, burn, transfer and batch
\* approval, direct or with a proof, leave all four as they were.
C11_OnlyAdminUpdates ==
    [][/\ admin' # admin
            => (last'.op = "setAdmin" /\ admin \in call'.signers)
       /\ packedDynamicProofConfigs' # packedDynamicProofConfigs
            => (last'.op = "updateDynamicProofConfig" /\ admin \in call'.signers)
       /\ vKeyMapRoot' # vKeyMapRoot
            => (last'.op = "updateSideLoadedVKeyHash" /\ admin \in call'.signers)
       /\ decimals' = decimals
       /\ (last'.op \in AdminOps /\ admin \notin call'.signers)
            => (last'.err # "ok" /\ UNCHANGED <<contractState, balance>>)
       /\ last'.op \in DirectOps \cup ProofOps => UNCHANGED contractState]_vars

\* C11 witness: a policy update signed by a holder who is not the admin was
\* rejected by the ledger
C11_Witness ==
    /\ last = [op |-> "updateDynamicProofConfig", err |-> "ledger:signature"]
    /\ call.signers = {"B"}
    /\ call.operationKey = OpMint
    /\ admin = "A"

\* mint, burn and transfer, direct and with a proof
MoveOps == (DirectOps \cup ProofOps) \ ApproveOps

\* the key a recorded mint, burn or transfer hands to verifySideLoadedProof
RecipientOf(c) == IF c.op = "mintWithProof" THEN c.to ELSE c.from

\* the call got past its entry point: shouldVerify is off for a direct call,
\* and the assertions of verifySideLoadedProof pass for a call with a proof
PastEntryPoint(c) ==
    IF c.op \in DirectOps THEN ~ConfigFor(c.op).shouldVerify
    ELSE VerifySideLoadedProof(c.proof, c.vk, RecipientOf(c), ConfigFor(c.op),
                               c.vKeyMap, OperationKeyFor(c.op)) = "ok"

DebitOps == {"burn", "burnWithProof", "transferCustom", "transferCustomWithProof"}

\* the balance changes of a recorded burn or transfer
DebitDeltas(c) ==
    IF c.op \in {"burn", "burnWithProof"} THEN BurnDeltas(c.from, c.amount)
    ELSE TransferDeltas(c.from, c.to, c.amount)

\* C16: a burn or transfer, direct or with a proof, that lacks the signature of
\* the debited account is rejected and no balance changes, whoever else
\* signs; with that signature it is accepted and the token moves, with or
\* without the admin's signature, when the call got past its entry point
\* (with a proof that verifies if shouldVerify is on), no endpoint is the
\* contract's own account and the balances stay in range.
C16_HolderAuthorizes ==
    [][last'.op \in DebitOps
         => /\ call'.from \notin call'.signers
                 => (last'.err # "ok" /\ balance' = balance)
            /\ (/\ call'.from \in call'.signers
                /\ PastEntryPoint(call')
                /\ (last'.op \in ProofOps /\ ConfigFor(last'.op).shouldVerify)
                      => CryptoVerify(call'.proof, call'.vk)
                /\ Self \notin {call'.from, call'.to}
                /\ ApplyDeltas(balance, DebitDeltas(call')).ok)
                 => /\ last'.err = "ok"
                    /\ balance' = ApplyDeltas(balance, DebitDeltas(call')).bal]_vars

\* C16 witness: a burn with a verified proof, signed by the holder and not by
\* the admin, was accepted
C16_Witness ==
    /\ last = [op |-> "burnWithProof", err |-> "ok"]
    /\ BurnConfig.shouldVerify
    /\ admin = "B"
    /\ call.from = "A"
    /\ call.signers = {"A"}
    /\ balance["A"] = 0 /\ balance[Self] = 0

\* the key a recorded call with a proof hands to verifySideLoadedProof
ExpectedAddress(c) ==
    IF c.op = "approveBaseCustomWithProof" THEN EmptyKey ELSE RecipientOf(c)

\* the outcome of each verification check of a recorded call with a proof,
\* taken alone, in the order: registry root, key present, key hash, recipient,
\* token id, native asset id, native balance, token balance, native nonce,
\* token nonce, proof validity
CheckOutcomes(c) ==
    LET cfg == ConfigFor(c.op)
        key == OperationKeyFor(c.op)
    IN  << RootCheck(cfg, c.vKeyMap),
           IsSomeCheck(cfg, c.vKeyMap, key),
           KeyHashCheck(cfg, c.vk, c.vKeyMap, key),
           RecipientCheck(cfg, c.proof, ExpectedAddress(c)),
           TokenIdCheck(cfg, c.proof),
           MinaTokenIdCheck(cfg, c.proof),
           MinaBalanceCheck(cfg, c.proof),
           TokenBalanceCheck(cfg, c.proof),
           MinaNonceCheck(cfg, c.proof),
           TokenNonceCheck(cfg, c.proof),
           VerifyIf(c.proof, c.vk, cfg.shouldVerify) >>

\* the checks of a recorded call that fail when taken alone
Failing(c) ==
    LET outcomes == CheckOutcomes(c)
    IN  { i \in 1..11 : outcomes[i] # "ok" }

\* the message of the earliest of them
EarliestFailure(c) ==
    LET outcomes == CheckOutcomes(c)
        first    == CHOOSE i \in 1..11 :
                        /\ outcomes[i] # "ok"
                        /\ \A j \in 1..(i - 1) : outcomes[j] = "ok"
    IN  outcomes[first]

\* C17: when shouldVerify is on and two or more verification checks of a call
\* with a proof fail, the call is rejected with the message of the earliest of
\* them in the order registry root, key present, key hash, recipient, token
\* id, native asset id, native balance, token balance, native nonce, token
\* nonce, proof validity, and no balance changes.
C17_EarliestFailureReported ==
    [][\A op \in ProofOps :
         (/\ last'.op = op
          /\ ConfigFor(op).shouldVerify
          /\ Cardinality(Failing(call')) >= 2)
           => /\ last'.err = EarliestFailure(call')
              /\ balance' = balance]_vars

\* C17 witness: a proof whose token balance and token nonce both deviate was
\* rejected for the token balance
C17_Witness ==
    /\ last = [op |-> "burnWithProof", err |-> "customTokenBalanceMismatch"]
    /\ Failing(call) = {8, 10}
    /\ TokenNonceCheck(BurnConfig, call.proof) = "customTokenNonceMismatch"
    /\ call.signers = Users

\* every check before the k-th passes for the recorded call
EarlierPass(c, k) ==
    LET outcomes == CheckOutcomes(c)
    IN  \A i \in 1..(k - 1) : outcomes[i] = "ok"

FlaggedChecks(cfg, proof) ==
    { <<5, cfg.requireTokenIdMatch,
        proof.tokenIdAccountData.tokenId # ThisTokenId, "tokenIdMismatch">>,
      <<7, cfg.requireMinaBalanceMatch,
        proof.minaBalance # AccountBalance(proof.minaAccountData),
        "minaBalanceMismatch">>,
      <<8, cfg.requireCustomTokenBalanceMatch,
        proof.tokenIdBalance # AccountBalance(proof.tokenIdAccountData),
        "customTokenBalanceMismatch">>,
      <<9, cfg.requireMinaNonceMatch,
        proof.minaNonce # AccountNonce(proof.minaAccountData), "minaNonceMismatch">>,
      <<10, cfg.requireCustomTokenNonceMatch,
        proof.tokenIdNonce # AccountNonce(proof.tokenIdAccountData),
        "customTokenNonceMismatch">> }

----------------------------------------------------------------------------
(* Properties of one batch approval (SpecApprove) *)

RECURSIVE PrefixSum(_, _)
\* the sum of the balance changes of the token-touching nodes among the first k
PrefixSum(updates, k) ==
    IF k = 0 THEN 0
    ELSE PrefixSum(updates, k - 1)
         + (IF updates[k].usesToken THEN updates[k].balanceChange ELSE 0)

HasPositivePrefix(updates) ==
    \E k \in 1..Len(updates) : PrefixSum(updates, k) > 0

\* the first node after which the running sum is positive
FirstPositive(updates) ==
    CHOOSE k \in 1..Len(updates) :
        PrefixSum(updates, k) > 0 /\ \A j \in 1..(k - 1) : PrefixSum(updates, j) <= 0

\* no node among the first k asks for a restricting access or receive
\* permission, and none of them touches the token of the contract's own account
CleanUpTo(updates, k) ==
    \A j \in 1..k :
        /\ ~updates[j].permissions.isSome
           \/ (updates[j].permissions.access = "none"
               /\ updates[j].permissions.receive = "none")
        /\ ~(updates[j].publicKey = Self /\ updates[j].usesToken)

\* the call got past the entry point: shouldVerify is off for a direct call,
\* off or followed by passing assertions for a call with a proof
ReachedTheForest(c) ==
    IF c.op = "approveBaseCustom" THEN ~UpdatesConfig.shouldVerify
    ELSE VerifySideLoadedProof(c.proof, c.vk, EmptyKey, UpdatesConfig, c.vKeyMap,
                               OpApproveBase) = "ok"

\* C1 as stated: every forest whose running sum of token-touching balance
\* changes is positive after some node is rejected with flashMinting.
C1_PositivePrefixIsFlashMinting ==
    [][(last'.op \in ApproveOps /\ HasPositivePrefix(call'.updates))
         => last'.err = "flashMinting"]_vars

\* C1: every forest whose running sum of token-touching balance changes is
\* positive after some node is rejected and no balance changes, also when
\* the final sum is zero; the error is flashMinting when the call got past its
\* entry point and no node up to the first one with a positive running sum
\* fails the permission check or touches the token of the contract's own
\* account.
C1_PositivePrefixRejected ==
    [][(last'.op \in ApproveOps /\ HasPositivePrefix(call'.updates))
         => /\ last'.err # "ok"
            /\ balance' = balance
            /\ (ReachedTheForest(call')
                /\ CleanUpTo(call'.updates, FirstPositive(call'.updates)))
                 => last'.err = "flashMinting"]_vars

\* C1 witness: a credit followed by the debit that balances it, fully signed,
\* was rejected as flash minting
C1_Witness ==
    /\ last = [op |-> "approveBaseCustom", err |-> "flashMinting"]
    /\ Len(call.updates) = 2
    /\ call.updates[1].balanceChange = 1
    /\ call.updates[2].publicKey = "A"
    /\ PrefixSum(call.updates, 2) = 0
    /\ call.signers = Users

\* the sum of the balance changes of all token-touching nodes of a forest
FinalSum(updates) == PrefixSum(updates, Len(updates))

\* C12 as stated: every forest whose token-touching balance changes do not
\* sum to zero is rejected with unbalancedTransaction, whatever else is wrong
\* with it.
C12_UnbalancedIsUnbalancedTransaction ==
    [][(last'.op \in ApproveOps /\ FinalSum(call'.updates) # 0)
         => last'.err = "unbalancedTransaction"]_vars

\* C12: every forest whose token-touching balance changes do not sum to zero
\* is rejected and no balance changes; the error is unbalancedTransaction
\* when the call got past its entry point, no node fails the permission check
\* or touches the token of the contract's own account, and the running sum is
\* never positive (so the final sum is negative).
C12_UnbalancedRejected ==
    [][(last'.op \in ApproveOps /\ FinalSum(call'.updates) # 0)
         => /\ last'.err # "ok"
            /\ balance' = balance
            /\ (/\ ReachedTheForest(call')
                /\ CleanUpTo(call'.updates, Len(call'.updates))
                /\ ~HasPositivePrefix(call'.updates))
                 => last'.err = "unbalancedTransaction"]_vars

\* C12 witness: a lone debit, signed by its owner, was rejected as unbalanced
C12_Witness ==
    /\ last = [op |-> "approveBaseCustom", err |-> "unbalancedTransaction"]
    /\ Len(call.updates) = 1
    /\ call.updates[1].publicKey = "A"
    /\ FinalSum(call.updates) = -1
    /\ call.signers = Users

DebitThenCredit(updates) ==
    LET deltas == ForestDeltas(updates)
    IN  /\ Len(deltas) = 2
        /\ deltas[1][2] < 0
        /\ deltas[2][2] = 0 - deltas[1][2]

\* C14 as stated: a forest whose token-touching balance changes are a debit
\* followed by the matching credit is rejected by batch approval.
C14_DebitThenCreditRejected ==
    [][(last'.op \in ApproveOps /\ DebitThenCredit(call'.updates))
         => last'.err # "ok"]_vars

\* C14: a forest whose token-touching balance changes are a debit followed by
\* the matching credit is accepted by batch approval, and the amount moves,
\* when the call got past its entry point (with a proof that verifies if
\* shouldVerify is on), no node asks for a restricting permission or touches
\* the token of the contract's own account, the debited owner has signed and
\* the balances stay in range: its running sum is negative, then zero.
C14_DebitThenCreditAccepted ==
    [][(/\ last'.op \in ApproveOps
        /\ DebitThenCredit(call'.updates)
        /\ ReachedTheForest(call')
        /\ (last'.op = "approveBaseCustomWithProof" /\ UpdatesConfig.shouldVerify)
              => CryptoVerify(call'.proof, call'.vk)
        /\ CleanUpTo(call'.updates, Len(call'.updates))
        /\ ForestSigners(call'.updates) \subseteq call'.signers
        /\ ApplyDeltas(balance, ForestDeltas(call'.updates)).ok)
         => /\ last'.err = "ok"
            /\ balance' = ApplyDeltas(balance, ForestDeltas(call'.updates)).bal]_vars

\* C14 witness: with verification on, a debit of A followed by the matching
\* credit of B was accepted by approveBaseCustomWithProof
C14_Witness ==
    /\ last = [op |-> "approveBaseCustomWithProof", err |-> "ok"]
    /\ UpdatesConfig.shouldVerify
    /\ DebitThenCredit(call.updates)
    /\ call.updates[1].publicKey = "A"
    /\ call.updates[2].publicKey = "B"
    /\ balance["A"] = 0 /\ balance["B"] = 1

----------------------------------------------------------------------------
(* Properties of the life of the registry (SpecRegistry) *)

\* C9: an accepted initialize leaves the registry empty; an entry for an
\* operation id appears only by an accepted updateSideLoadedVKeyHash for that
\* very id, signed by the admin; and while the registry has no entry for the
\* id of a proof-mode entry point, every call of it with shouldVerify set and
\* a replica in step is rejected with missingVKeyForOperation, whatever was
\* registered for other ids.
C9_MissingUntilRegistered ==
    [][/\ (last'.op = "initialize" /\ last'.err = "ok")
            => MapOfRoot(vKeyMapRoot') = EmptyMap
       /\ \A k \in OperationKeys :
             (~MapHas(Registry, k) /\ MapHas(MapOfRoot(vKeyMapRoot'), k))
                => /\ last' = [op |-> "updateSideLoadedVKeyHash", err |-> "ok"]
                   /\ call'.operationKey = k
                   /\ admin \in call'.signers
                   /\ initialized
       /\ \A op \in ProofOps :
             (/\ last'.op = op
              /\ ConfigFor(op).shouldVerify
              /\ vKeyMapRoot = MapRoot(call'.vKeyMap)
              /\ ~MapHas(Registry, OperationKeyFor(op)))
                => (last'.err = "missingVKeyForOperation" /\ balance' = balance)]_vars

\* C9 witness: after keys were registered for mint and transfer, a burnWithProof
\* with a replica in step was still rejected for the missing key
C9_Witness ==
    /\ last = [op |-> "burnWithProof", err |-> "missingVKeyForOperation"]
    /\ MapHas(Registry, OpMint)
    /\ MapHas(Registry, OpTransfer)
    /\ ~MapHas(Registry, OpBurn)
    /\ vKeyMapRoot = MapRoot(call.vKeyMap)

----------------------------------------------------------------------------
(* Properties of presenting a proof again (SpecReplay) *)

\* a mintWithProof presents again a proof that was accepted for a positive
\* amount, while mint has shouldVerify on and the token balance required
Replayed ==
    /\ last'.op = "mintWithProof"
    /\ call.op = "mintWithProof"
    /\ call.used
    /\ call'.again
    /\ MintConfig.shouldVerify
    /\ MintConfig.requireCustomTokenBalanceMatch

----------------------------------------------------------------------------
(* Properties of keeping a replica in step (SpecSync) *)

\* the three checks of verifySideLoadedProof that read the registry
RegistryErrors ==
    {"vKeyMapOutOfSync", "missingVKeyForOperation", "invalidSideLoadedVKey"}

\* C22: an accepted updateSideLoadedVKeyHash(vKey, replica, id) publishes the
\* root of the replica with the entry of id set to the hash of vKey: a lookup
\* of id in the published registry yields that hash, and the lookup of every
\* other id yields what it yielded before; and a mint or burn with a proof
\* under shouldVerify that presents the registry in step and the key
\* registered for its id fails none of the three registry checks.
C22_UpdateSetsOneEntry ==
    [][/\ last' = [op |-> "updateSideLoadedVKeyHash", err |-> "ok"]
            => LET k    == call'.operationKey
                   hash == VKeyHash(call'.vk)
                   new  == MapOfRoot(vKeyMapRoot')
               IN  /\ vKeyMapRoot' = MapRoot(MapSet(call'.vKeyMap, k, hash))
                   /\ MapGetOption(new, k) = [isSome |-> TRUE, value |-> hash]
                   /\ \A j \in 0..7 :
                         j # k => /\ MapGetOption(new, j) = MapGetOption(Registry, j)
                                  /\ MapGetOption(new, j)
                                       = MapGetOption(call'.vKeyMap, j)
       /\ \A op \in {"mintWithProof", "burnWithProof"} :
             (/\ last'.op = op
              /\ ConfigFor(op).shouldVerify
              /\ call'.vKeyMap = Registry
              /\ MapGetOption(Registry, OperationKeyFor(op))
                   = [isSome |-> TRUE, value |-> VKeyHash(call'.vk)])
               => last'.err \notin RegistryErrors]_vars

\* C22 witness: the key of mint was replaced while a key for burn is
\* registered, and the entry of burn is as before
C22_Witness ==
    /\ last = [op |-> "updateSideLoadedVKeyHash", err |-> "ok"]
    /\ call.operationKey = OpMint
    /\ MapGetOption(call.vKeyMap, OpMint) = [isSome |-> TRUE, value |-> VKeyHash("vk1")]
    /\ MapGetOption(Registry, OpMint) = [isSome |-> TRUE, value |-> VKeyHash("vk2")]
    /\ MapGetOption(Registry, OpBurn) = [isSome |-> TRUE, value |-> VKeyHash("vk1")]
    /\ MapGetOption(call.vKeyMap, OpBurn) = MapGetOption(Registry, OpBurn)

\* a call that reads the registry: a registry update, or a mint or burn with
\* a proof while the record of the operation has shouldVerify set
ReadsRegistry ==
    \/ last'.op = "updateSideLoadedVKeyHash"
    \/ /\ last'.op \in {"mintWithProof", "burnWithProof"}
       /\ ConfigFor(last'.op).shouldVerify

\* C23 as stated: once an accepted update has changed the registry, every
\* call that reads the registry and presents a replica that was in step
\* before such an update is rejected with vKeyMapOutOfSync.
C23_PreUpdateReplicaRejected ==
    [][(/\ Registry # EmptyMap
        /\ ReadsRegistry
        /\ call'.vKeyMap = PreUpdateReplica)
          => last'.err = "vKeyMapOutOfSync"]_vars

\* C23: an accepted update that changes the registry was given a replica
\* that matched the root before and does not match the root after, while
\* that replica with the one entry set does; and a call that reads the
\* registry and presents a replica whose root is not the root on chain, the
\* replica of before an update included, is rejected with vKeyMapOutOfSync
\* and changes nothing.
C23_StaleReplicaRejected ==
    [][/\ (/\ last' = [op |-> "updateSideLoadedVKeyHash", err |-> "ok"]
           /\ vKeyMapRoot' # vKeyMapRoot)
            => /\ MapRoot(call'.vKeyMap) = vKeyMapRoot
               /\ MapRoot(call'.vKeyMap) # vKeyMapRoot'
               /\ MapRoot(MapSet(call'.vKeyMap, call'.operationKey,
                                 VKeyHash(call'.vk))) = vKeyMapRoot'
       /\ (ReadsRegistry /\ MapRoot(call'.vKeyMap) # vKeyMapRoot)
            => /\ last'.err = "vKeyMapOutOfSync"
               /\ UNCHANGED <<vKeyMapRoot, packedDynamicProofConfigs, balance>>
       /\ (/\ Registry # EmptyMap
           /\ ReadsRegistry
           /\ call'.vKeyMap = PreUpdateReplica
           /\ PreUpdateReplica # Registry)
            => last'.err = "vKeyMapOutOfSync"]_vars

\* C23 witness: after the key of mint was replaced, a further update that
\* presents the replica of before the replacement was rejected
C23_Witness ==
    /\ last = [op |-> "updateSideLoadedVKeyHash", err |-> "vKeyMapOutOfSync"]
    /\ call.vKeyMap = call.before
    /\ call.signers = Users
    /\ MapGetOption(call.before, OpMint) = [isSome |-> TRUE, value |-> VKeyHash("vk1")]
    /\ Registry = MapSet(call.before, OpMint, VKeyHash("vk2"))

----------------------------------------------------------------------------
(* Properties of the admin's updates in single calls (SpecCall) *)

\* the keys that have an entry in a registry
RegisteredKeys(m) == { m[i][1] : i \in DOMAIN m }

\* C24: updateSideLoadedVKeyHash and updateDynamicProofConfig with an id
\* outside 1..4 are rejected whoever signs, and leave the registry root and
\* the packed policy as they were; the registry update reports
\* invalidOperationKey when the replica is in step, the policy update reports
\* invalidOperationType; and no call registers a key outside 1..4.
C24_OnlyFourIds ==
    [][/\ (/\ last'.op = "updateSideLoadedVKeyHash"
           /\ call'.operationKey \notin OperationKeys)
            => /\ last'.err # "ok"
               /\ MapRoot(call'.vKeyMap) = vKeyMapRoot
                    => last'.err = "invalidOperationKey"
               /\ UNCHANGED <<vKeyMapRoot, packedDynamicProofConfigs>>
       /\ (/\ last'.op = "updateDynamicProofConfig"
           /\ call'.operationKey \notin OperationKeys)
            => /\ last'.err = "invalidOperationType"
               /\ UNCHANGED <<vKeyMapRoot, packedDynamicProofConfigs>>
       /\ RegisteredKeys(Registry) \subseteq OperationKeys
            => RegisteredKeys(MapOfRoot(vKeyMapRoot')) \subseteq OperationKeys]_vars

\* C24 witness: the admin signed a registry update for id 5 and presented
\* the registry in step
C24_Witness ==
    /\ last = [op |-> "updateSideLoadedVKeyHash", err |-> "invalidOperationKey"]
    /\ call.operationKey = 5
    /\ admin \in call.signers
    /\ MapRoot(call.vKeyMap) = vKeyMapRoot

\* C25: an accepted updateDynamicProofConfig(id, record) stores
\* record.updatePackedConfigs(previous, id - 1): segment id - 1 unpacks to the
\* record and the three other segments unpack to what they unpacked before.
C25_UpdateReplacesOneSegment ==
    [][last' = [op |-> "updateDynamicProofConfig", err |-> "ok"]
         => LET i == call'.operationKey - 1
                previous == packedDynamicProofConfigs
                stored   == packedDynamicProofConfigs'
            IN  /\ stored = UpdatePackedConfigs(call'.config, previous, i)
                /\ Unpack(stored, i) = call'.config
                /\ \A j \in (0..3) \ {i} : Unpack(stored, j) = Unpack(previous, j)]_vars

\* C25 witness: the record of transfer was replaced and differs from the
\* records of mint, burn and batch approval
C25_Witness ==
    /\ last = [op |-> "updateDynamicProofConfig", err |-> "ok"]
    /\ call.operationKey = OpTransfer
    /\ Unpack(packedDynamicProofConfigs, 2) = call.config
    /\ \A j \in {0, 1, 3} : Unpack(packedDynamicProofConfigs, j) = ConfigOfNat(127)

----------------------------------------------------------------------------
(* Properties of the codec (SpecCodec) *)

\* C26: for every list of four records, unpacking segment i of
\* packConfigs(list) gives the record at position i, for i in 0..3.
C26_PackUnpackRoundTrip ==
    /\ (last.op = "packConfigs" /\ last.err = "ok")
         => \A i \in 0..3 : Unpack(packedDynamicProofConfigs, i) = call.configs[i + 1]
    /\ (call.op = "unpack" /\ call.input.op = "packConfigs")
         => call.unpacked = call.input.configs[call.segment + 1]

\* C26 witness: a list of four different records was packed and its third
\* segment unpacked
C26_Witness ==
    /\ call.op = "unpack"
    /\ call.input.op = "packConfigs"
    /\ call.segment = 2
    /\ call.input.configs = <<ConfigOfNat(0), ConfigOfNat(85), ConfigOfNat(42),
                              ConfigOfNat(127)>>
    /\ call.unpacked = ConfigOfNat(42)

\* C27: for every packed value below 2^28, record r and segments i # j,
\* unpacking segment j of r.updatePackedConfigs(p, i) gives what unpacking
\* segment j of p gives.
C27_OtherSegmentsKept ==
    /\ last.op = "updatePackedConfigs"
         => \A j \in (0..3) \ {call.configIndex} :
               Unpack(packedDynamicProofConfigs, j) = Unpack(call.packed, j)
    /\ (/\ call.op = "unpack"
        /\ call.input.op = "updatePackedConfigs"
        /\ call.segment # call.input.configIndex)
         => call.unpacked = Unpack(call.input.packed, call.segment)

\* C27 witness: the record without flags was written to segment 1 of the
\* packed value with every bit set, and segment 3 unpacked with every flag
C27_Witness ==
    /\ call.op = "unpack"
    /\ call.input.op = "updatePackedConfigs"
    /\ call.input.packed = 2 ^ TOTAL_BITS - 1
    /\ call.input.config = ConfigOfNat(0)
    /\ call.input.configIndex = 1
    /\ call.segment = 3
    /\ call.unpacked = ConfigOfNat(2 ^ BITS_PER_CONFIG - 1)

\* the seven flags of a record in the order of the packed layout
FlagsInOrder(c) ==
    << c.shouldVerify, c.requireRecipientMatch, c.requireTokenIdMatch,
       c.requireMinaBalanceMatch, c.requireCustomTokenBalanceMatch,
       c.requireMinaNonceMatch, c.requireCustomTokenNonceMatch >>

\* bits [7i, 7i + 7) of a packed value, lowest first
SegmentBits(packed, i) ==
    [k \in 1..7 |-> (packed \div 2 ^ (7 * i + k - 1)) % 2 = 1]

C29_ExactlyFourRecords ==
    last.op = "packConfigs"
      => /\ Len(call.configs) # 4
              => /\ last.err = "InvalidRecordCount"
                 /\ PackConfigs(call.configs) = "InvalidRecordCount"
         /\ Len(call.configs) = 4
              => /\ last.err = "ok"
                 /\ packedDynamicProofConfigs = PackConfigs(call.configs)
                 /\ packedDynamicProofConfigs \in 0..(2 ^ TOTAL_BITS - 1)

\* C29 witness: a list of five records was refused
C29_Witness ==
    /\ last = [op |-> "packConfigs", err |-> "InvalidRecordCount"]
    /\ Len(call.configs) = 5

----------------------------------------------------------------------------
(* Properties of the balances in single calls (SpecCall) *)

\* C30: an accepted mint or mintWithProof(recipient, amount) raises the
\* token balance of the recipient by amount and that of the circulation
\* account by amount, and leaves the balance of every other account as it was.
C30_MintCreditsRecipientAndCirculation ==
    [][(last'.op \in {"mint", "mintWithProof"} /\ last'.err = "ok")
         => /\ call'.to # Self
            /\ balance'[call'.to] = balance[call'.to] + call'.amount
            /\ balance'[Self] = balance[Self] + call'.amount
            /\ \A a \in Accounts \ {call'.to, Self} : balance'[a] = balance[a]]_vars

\* C30 witness: one token was minted to "B" while nobody held any
C30_Witness ==
    /\ last = [op |-> "mint", err |-> "ok"]
    /\ call.to = "B"
    /\ call.amount = 1
    /\ balance = [a \in Accounts |-> IF a = "A" THEN 0 ELSE 1]

\* C31: an accepted burn or burnWithProof(from, amount) lowers the token
\* balance of from by amount and that of the circulation account by amount,
\* and leaves the balance of every other account as it was.
C31_BurnDebitsHolderAndCirculation ==
    [][(last'.op \in {"burn", "burnWithProof"} /\ last'.err = "ok")
         => /\ call'.from # Self
            /\ balance'[call'.from] = balance[call'.from] - call'.amount
            /\ balance'[Self] = balance[Self] - call'.amount
            /\ \A a \in Accounts \ {call'.from, Self} : balance'[a] = balance[a]]_vars

\* C31 witness: the one token in circulation was burned by its holder with
\* a proof
C31_Witness ==
    /\ last = [op |-> "burnWithProof", err |-> "ok"]
    /\ call.from = "A"
    /\ call.amount = 1
    /\ ConfigFor("burnWithProof").shouldVerify
    /\ balance = [a \in Accounts |-> 0]

----------------------------------------------------------------------------
(* Properties of the checks on the nodes of a batch (SpecApprove) *)

\* the node asks for a permissions update whose access or receive is not none
Restricting(update) ==
    /\ update.permissions.isSome
    /\ update.permissions.access # "none" \/ update.permissions.receive # "none"

\* the first node of the forest that asks for a restricting permissions update
FirstRestricting(updates) ==
    CHOOSE k \in 1..Len(updates) :
        Restricting(updates[k]) /\ \A j \in 1..(k - 1) : ~Restricting(updates[j])

\* none of the first k nodes touches the token of the contract's own account
\* and the running sum is not positive after any of them
NoOtherFailureUpTo(updates, k) ==
    \A j \in 1..k :
        /\ ~(updates[j].publicKey = Self /\ updates[j].usesToken)
        /\ PrefixSum(updates, j) <= 0

OfCirculation(update) == update.publicKey = Self /\ update.usesToken

\* the first node of the forest that touches the token of the contract's
\* own account
FirstOfCirculation(updates) ==
    CHOOSE k \in 1..Len(updates) :
        OfCirculation(updates[k]) /\ \A j \in 1..(k - 1) : ~OfCirculation(updates[j])

NodeErrors ==
    {"noPermissionChangeAllowed", "noTransferFromCirculation", "flashMinting",
     "unbalancedTransaction"}

\* C37: a node that does not touch the token never causes rejection,
\* whatever permissions update it asks for, whoever owns it and whatever its
\* balance change, and adds nothing to the running total: a batch made of
\* such nodes only fails none of the checks of batch approval.
C37_OtherTokenNodesPass ==
    [][(/\ last'.op \in ApproveOps
        /\ \A k \in 1..Len(call'.updates) : ~call'.updates[k].usesToken)
         => last'.err \notin NodeErrors]_vars

----------------------------------------------------------------------------
(* Properties of initialization and of the admin role (Spec) *)

\* C35: initialize is accepted only while the contract is not initialized;
\* once it is, it stays so, and every further initialize is rejected and
\* leaves admin, decimals, packed policy and registry root as they were.
C35_InitializeOnce ==
    [][/\ initialized => initialized'
       /\ last'.op = "initialize"
            => /\ last'.err = "ok" => (~initialized /\ initialized')
               /\ initialized
                    => /\ last'.err # "ok"
                       /\ UNCHANGED <<admin, decimals, packedDynamicProofConfigs,
                                      vKeyMapRoot>>]_vars

\* C35 witness: an initialize was rejected after the admin had become "B",
\* a key had been registered and the policy of mint had been changed
C35_Witness ==
    /\ last = [op |-> "initialize", err |-> "ledger:initialized"]
    /\ admin = "B"
    /\ Registry # EmptyMap
    /\ MintConfig # MintDefault

\* C38: in every state after initialization, whatever policy updates were
\* made, the stored packed policy is below 2^28: its 28-bit decomposition
\* does not fail, no call has failed on it, and each of the four segments
\* unpacks to a record.
C38_PackedPolicyFits ==
    initialized
      => /\ packedDynamicProofConfigs \in 0..(2 ^ 28 - 1)
         /\ UnpackError(packedDynamicProofConfigs) = "ok"
         /\ last.err # "toBitsOverflow"
         /\ \A i \in 0..3 : Unpack(packedDynamicProofConfigs, i) \in AllConfigs

\* C38 witness: a policy update has set every flag of the highest segment
C38_Witness ==
    /\ initialized
    /\ last = [op |-> "updateDynamicProofConfig", err |-> "ok"]
    /\ Unpack(packedDynamicProofConfigs, 3) = ConfigOfNat(2 ^ BITS_PER_CONFIG - 1)
    /\ packedDynamicProofConfigs >= 2 ^ 27

----------------------------------------------------------------------------
(* Properties of the capacity of the registry (SpecRegistry) *)

\* C39: from the empty registry of initialization the admin registers a key
\* for each of the four operation ids by successive updates, and none of them
\* is refused for lack of room: every update of an id in 1..4 that is signed
\* by the admin and presents the registry in step is accepted.
C39_FourKeysFit ==
    [][(/\ last'.op = "updateSideLoadedVKeyHash"
        /\ call'.operationKey \in OperationKeys
        /\ MapRoot(call'.vKeyMap) = vKeyMapRoot
        /\ admin \in call'.signers)
         => last'.err = "ok"]_vars

----------------------------------------------------------------------------
(* Properties of the admin role (SpecAdmin) *)

\* the operations that need the admin's signature
AdminSigned == AdminOps \cup {"mint"}

\* nothing but the signature can make the recorded call of these runs fail:
\* a mint keeps the balances in range
OtherwiseValid(c) ==
    c.op = "mint" => ApplyDeltas(balance, MintDeltas(c.to, c.amount)).ok

\* C36: setAdmin is accepted exactly when the current admin has signed, and
\* then the admin is the new key; once the role has moved, a mint, a
\* registry update, a policy update and a setAdmin signed by the previous
\* admin and not by the new one are rejected and change nothing, and the
\* same calls signed by the new admin are accepted.
C36_AdminRoleMoves ==
    [][/\ last'.op = "setAdmin"
            => /\ last'.err = "ok" <=> admin \in call'.signers
               /\ admin' = IF last'.err = "ok" THEN call'.newAdmin ELSE admin
       /\ (last'.op \in AdminSigned /\ PreviousAdmin # admin)
            => /\ (PreviousAdmin \in call'.signers /\ admin \notin call'.signers)
                    => /\ last'.err # "ok"
                       /\ UNCHANGED <<contractState, balance>>
               /\ (admin \in call'.signers /\ OtherwiseValid(call'))
                    => last'.err = "ok"]_vars

\* C36 witness: after "A" handed the role to "B", a mint signed by "A" alone
\* was rejected
C36_Witness ==
    /\ last = [op |-> "mint", err |-> "ledger:signature"]
    /\ call.previous = "A"
    /\ admin = "B"
    /\ call.signers = {"A"}
    /\ call.amount = 1

====
